---- MODULE Spec2Model ----
(***************************************************************************)
(* Model of the ETL batch pipeline of my-vibeiq-etl:                       *)
(*   ItemTransformationService (transformCsvRowToItem,                     *)
(*   transformCsvRowsToItems, ensureFamilyItemsExist) and                  *)
(*   BatchProcessingService (processBatch, processItemsInBatches,          *)
(*   processSingleBatch, createInitialBatch, chunkArray),                  *)
(* run against the three collaborators of Repositories.ts: the CSV parser, *)
(* the item service (catalog) and the batch repository (status store).     *)
(*                                                                         *)
(* One action is one resumption of the async code: the settling of the     *)
(* call it awaits together with everything the code does up to the next    *)
(* await (the next collaborator call is issued in the same step).          *)
(* Date values (createdAt, updatedAt, timestamp) are not modelled.         *)
(***************************************************************************)
EXTENDS Integers, Sequences, FiniteSets, TLC

(***************************************************************************)
(* Program constant and bounds                                             *)
(***************************************************************************)
\* BatchProcessingService.MAX_BATCH_SIZE
MAX_BATCH_SIZE == 100

\* largest number of CSV rows the parser hands back in the model
MaxRows == 150

\* number of ids that may exist in the catalog before processBatch starts
MaxPreexisting == 1

\* number of times processBatch is invoked for one and the same request
MaxAttempts == 2

\* longest row sequence handed to the transformation service examined alone
MaxSmallRows == 3

\* largest chunk size chunkArray is examined with
MaxChunkSize == 4

\* number of processBatch invocations that run concurrently on one service instance
MaxInvocations == 2

\* largest number of data records the CSV library hands to parseCsvContent
MaxRecords == 2

\* longest rawPath handed to the router, in pieces (a slash or a slash-free word)
MaxPathPieces == 5

\* most reads of the status store in one behaviour
MaxReads == 2

\* most requests handed to one publishBatches call
MaxRequests == 11

\* most records in one SQS event
MaxSqsRecords == 2

\* most CSV rows behind a chunk that two reconciliations share
MaxSharedRows == 2

(***************************************************************************)
(* Inputs: CSV rows as the parser returns them (CsvRow, Item.ts)           *)
(***************************************************************************)
FamilyId(i) == "f" \o ToString(i)

OptionId(i) == "o" \o ToString(i)

\* a family row: optionFederatedId is absent
FamilyRow(i) ==
  [familyFederatedId |-> FamilyId(i),
   title |-> "T" \o ToString(i), details |-> "D" \o ToString(i)]

\* an option row of family f
OptionRow(i, f) ==
  [familyFederatedId |-> FamilyId(f), optionFederatedId |-> OptionId(i),
   title |-> "T" \o ToString(i), details |-> "D" \o ToString(i)]

RowPatterns == {"families", "orphans", "mixed", "shared"}

\* the n-row input of the given pattern
RowsOf(pat, n) ==
  [i \in 1..n |->
     CASE pat = "families" -> FamilyRow(i)
       [] pat = "orphans"  -> OptionRow(i, i)
       [] pat = "mixed"    -> IF i % 2 = 1 THEN FamilyRow(i) ELSE OptionRow(i, i - 1)
       [] pat = "shared"   -> OptionRow(i, (i % 3) + 1)]

RowCounts ==
  {n \in 0..MaxRows :
     \/ n <= 2
     \/ n \in {MAX_BATCH_SIZE, MAX_BATCH_SIZE + 1}
     \/ n = MaxRows}

ParsedInputs == {RowsOf(pat, n) : pat \in RowPatterns, n \in RowCounts}

\* rows sharing a federatedId: each family row twice in a row, and the
\* rows of one chunk starting over after MAX_BATCH_SIZE rows
RepeatedInputs ==
  {[i \in 1..n |-> IF pat = "twins" THEN FamilyRow((i + 1) \div 2)
                   ELSE FamilyRow(((i - 1) % MAX_BATCH_SIZE) + 1)] :
     pat \in {"twins", "echo"}, n \in RowCounts \ {0, 1}}

(***************************************************************************)
(* ItemTransformationService                                               *)
(***************************************************************************)
\* JavaScript truthiness of csvRow.optionFederatedId (undefined and "" are falsy)
HasOption(csvRow) ==
  /\ "optionFederatedId" \in DOMAIN csvRow
  /\ csvRow.optionFederatedId # ""

\* mutant: the federatedId is always the family's
transformCsvRowToItem_FamilyIdAlways(csvRow) ==
  [name |-> csvRow.title,
   description |-> csvRow.details,
   federatedId |-> csvRow.familyFederatedId,
   roles |-> IF HasOption(csvRow) THEN <<"option">> ELSE <<"family">>]

transformCsvRowToItem(csvRow) ==
  [name |-> csvRow.title,
   description |-> csvRow.details,
   \* csvRow.optionFederatedId ?? csvRow.familyFederatedId
   federatedId |-> IF "optionFederatedId" \in DOMAIN csvRow
                     THEN csvRow.optionFederatedId
                     ELSE csvRow.familyFederatedId,
   roles |-> IF HasOption(csvRow) THEN <<"option">> ELSE <<"family">>]

\* mutant: the items come out in reverse row order
transformCsvRowsToItems_Reversed(csvRows) ==
  [i \in 1..Len(csvRows) |-> transformCsvRowToItem(csvRows[Len(csvRows) + 1 - i])]

transformCsvRowsToItems(csvRows) ==
  [i \in 1..Len(csvRows) |-> transformCsvRowToItem(csvRows[i])]

\* the elements of a sequence as a set
Range(s) == {s[i] : i \in 1..Len(s)}

\* mutant: an array instead of a Set, repeated elements are kept
InsertionOrder_NoDedup(s) == s

\* a JavaScript Set built from an array: its elements in insertion order,
\* each once
InsertionOrder(s) ==
  LET firsts == {i \in 1..Len(s) : \A j \in 1..(i - 1) : s[j] # s[i]}
      Rank(i) == Cardinality({j \in firsts : j <= i})
  IN [r \in 1..Cardinality(firsts) |-> s[CHOOSE i \in firsts : Rank(i) = r]]

MapFamilyOf(csvRows) == [i \in 1..Len(csvRows) |-> csvRows[i].familyFederatedId]

IsFamilyRow(csvRow) == ~HasOption(csvRow)

IsOptionRow(csvRow) == HasOption(csvRow)

SynthesizedFamily(federatedId) ==
  [name |-> "Family " \o federatedId,
   description |-> "Auto-generated family for " \o federatedId,
   federatedId |-> federatedId,
   roles |-> <<"family">>]

\* mutant: a family is synthesized for every family an option row references,
\* declared or not
ensureFamilyItemsExist_AllReferenced(transformedItems, csvRows) ==
  LET optionFamilyIds ==
        InsertionOrder(MapFamilyOf(SelectSeq(csvRows, IsOptionRow)))
      missingFamilyItems ==
        [i \in 1..Len(optionFamilyIds) |-> SynthesizedFamily(optionFamilyIds[i])]
  IN transformedItems \o missingFamilyItems

\* mutant: the synthesized families are put in front of the given items
ensureFamilyItemsExist_Prepended(transformedItems, csvRows) ==
  LET familyFederatedIds ==
        Range(MapFamilyOf(SelectSeq(csvRows, IsFamilyRow)))
      optionFamilyIds ==
        InsertionOrder(MapFamilyOf(SelectSeq(csvRows, IsOptionRow)))
      NotDeclared(id) == id \notin familyFederatedIds
      missingFamilyIds == SelectSeq(optionFamilyIds, NotDeclared)
      missingFamilyItems ==
        [i \in 1..Len(missingFamilyIds) |-> SynthesizedFamily(missingFamilyIds[i])]
  IN missingFamilyItems \o transformedItems

ensureFamilyItemsExist(transformedItems, csvRows) ==
  LET familyFederatedIds ==
        Range(MapFamilyOf(SelectSeq(csvRows, IsFamilyRow)))
      optionFamilyIds ==
        InsertionOrder(MapFamilyOf(SelectSeq(csvRows, IsOptionRow)))
      NotDeclared(id) == id \notin familyFederatedIds
      missingFamilyIds == SelectSeq(optionFamilyIds, NotDeclared)
      missingFamilyItems ==
        [i \in 1..Len(missingFamilyIds) |-> SynthesizedFamily(missingFamilyIds[i])]
  IN transformedItems \o missingFamilyItems

(***************************************************************************)
(* BatchProcessingService: pure helpers                                    *)
(***************************************************************************)
\* array.slice(i, i + chunkSize), 0-based, from i (inclusive) to
\* i + chunkSize (exclusive) or the end of the array, pushed for every i
RECURSIVE ChunkFrom(_, _, _)
ChunkFrom(array, chunkSize, i) ==
  IF i < Len(array)
    THEN <<SubSeq(array, i + 1,
                  IF i + chunkSize < Len(array) THEN i + chunkSize ELSE Len(array))>>
         \o ChunkFrom(array, chunkSize, i + chunkSize)
    ELSE <<>>

\* mutant: only full chunks are formed, the remainder is dropped
chunkArray_DropsRemainder(array, chunkSize) ==
  ChunkFrom(SubSeq(array, 1, (Len(array) \div chunkSize) * chunkSize), chunkSize, 0)

\* mutant: the chunks are one item longer than the limit
chunkArray_Oversized(array, chunkSize) == ChunkFrom(array, chunkSize + 1, 0)

\* mutant: every chunk after the first starts with the last item of the one before
chunkArray_Overlapping(array, chunkSize) ==
  LET chunks == ChunkFrom(array, chunkSize, 0)
  IN [j \in 1..Len(chunks) |->
        IF j = 1 THEN chunks[1] ELSE <<array[(j - 1) * chunkSize]>> \o chunks[j]]

chunkArray(array, chunkSize) == ChunkFrom(array, chunkSize, 0)

\* mutant: the processedItems test comes first, so an empty batch is failed
deriveStatus_ProcessedFirst(processed, failed) ==
  IF processed = 0 THEN "failed"
  ELSE IF failed = 0 THEN "completed"
  ELSE "partial"

\* mutant: the failed and partial branches are swapped
deriveStatus_Swapped(processed, failed) ==
  IF failed = 0 THEN "completed"
  ELSE IF processed = 0 THEN "partial"
  ELSE "failed"

\* the "determine final status" expression of processItemsInBatches
deriveStatus(processed, failed) ==
  IF failed = 0 THEN "completed"
  ELSE IF processed = 0 THEN "failed"
  ELSE "partial"

\* mutant: one BatchError per failed chunk instead of one per item
ChunkErrors_OnePerChunk(batch, message) ==
  <<[itemFederatedId |-> batch[1].federatedId, error |-> message]>>

\* the BatchError entries pushed for a failed chunk (batch.forEach)
ChunkErrors(batch, message) ==
  [i \in 1..Len(batch) |->
     [itemFederatedId |-> batch[i].federatedId, error |-> message]]

\* message of the size-precondition error of processSingleBatch
SizeMessage(n) ==
  "Batch size " \o ToString(n) \o " exceeds maximum of " \o ToString(MAX_BATCH_SIZE)

\* items.map((item) => item.federatedId)
FederatedIdsOf(chunk) == [i \in 1..Len(chunk) |-> chunk[i].federatedId]

\* existingItems.get(item.federatedId) is truthy
HasExistingId(existingItems, item) ==
  /\ item.federatedId \in DOMAIN existingItems
  /\ existingItems[item.federatedId] # ""

\* mutant: the lookup result is ignored, every item of the chunk is created
ItemsToCreate_All(chunk, existingItems) == chunk

\* itemsToCreate of processSingleBatch
ItemsToCreate(chunk, existingItems) ==
  LET Missing(item) == ~HasExistingId(existingItems, item)
  IN SelectSeq(chunk, Missing)

\* mutant: the federatedId is sent as the id of the item to update
ItemsToUpdate_FederatedIdAsId(chunk, existingItems) ==
  LET Existing(item) == HasExistingId(existingItems, item)
      found == SelectSeq(chunk, Existing)
  IN [i \in 1..Len(found) |->
        [name |-> found[i].name, description |-> found[i].description,
         federatedId |-> found[i].federatedId, roles |-> found[i].roles,
         id |-> found[i].federatedId]]

\* itemsToUpdate of processSingleBatch: { ...item, id: existingId }
ItemsToUpdate(chunk, existingItems) ==
  LET Existing(item) == HasExistingId(existingItems, item)
      found == SelectSeq(chunk, Existing)
  IN [i \in 1..Len(found) |->
        [name |-> found[i].name, description |-> found[i].description,
         federatedId |-> found[i].federatedId, roles |-> found[i].roles,
         id |-> existingItems[found[i].federatedId]]]

(***************************************************************************)
(* Collaborators (Repositories.ts)                                         *)
(***************************************************************************)
\* generateBatchId: one invocation, one id
BatchId == "batch_1"

\* rejection messages of the collaborators
SaveError == "saveBatch failed"

ParseError == "Invalid CSV format"

StoreUpdateError == "updateBatch failed"

LookupError == "lookup failed"

CreateError == "create failed"

UpdateItemsError == "update failed"

\* the record createInitialBatch builds
InitialBatch(batchId) ==
  [id |-> batchId, status |-> "pending", totalItems |-> 0,
   processedItems |-> 0, failedItems |-> 0, errors |-> <<>>]

\* BatchRepository.updateBatch: the stored record with the given fields replaced
MergeUpdates(batch, updates) ==
  [f \in DOMAIN batch |-> IF f \in DOMAIN updates THEN updates[f] ELSE batch[f]]

\* the status store after a successful updateBatch(batchId, updates);
\* an id that was never saved has no record to update
StoreAfterUpdate(st, batchId, updates) ==
  IF batchId \in DOMAIN st
    THEN [st EXCEPT ![batchId] = MergeUpdates(st[batchId], updates)]
    ELSE st

\* the internal id the item service assigns to a created item
InternalIdOf(federatedId) == "id-" \o federatedId

\* the catalog as lookupItemsByFederatedIds reports it for the given ids
LookupResult(cat, federatedIds) ==
  [id \in (Range(federatedIds) \cap DOMAIN cat) |-> cat[id]]

\* the catalog after a successful createItemsBatch(created)
CatalogAfterCreate(cat, created) ==
  [id \in DOMAIN cat \cup Range(FederatedIdsOf(created)) |->
     IF id \in DOMAIN cat THEN cat[id] ELSE InternalIdOf(id)]

\* catalogs that exist before processBatch starts
InitialCatalogs ==
  {[id \in {FamilyId(i) : i \in 1..a} \cup {OptionId(i) : i \in 1..b}
      |-> InternalIdOf(id)] : a \in 0..MaxPreexisting, b \in 0..MaxPreexisting}

(***************************************************************************)
(* State                                                                   *)
(***************************************************************************)
VARIABLES
  pc,              \* the await processBatch is suspended at ("idle" before the call, "done" after)
  store,           \* status store: batch id -> persisted Batch record
  catalog,         \* item service: federatedId -> internal id of the items that exist
  calls,           \* collaborator calls in the order they were issued
  outcomes,        \* outcomes[i]: "pending", "ok", or the rejection message of calls[i]
  csvRows,         \* rows returned by the parser
  items,           \* itemsWithFamilies
  batches,         \* chunks of processItemsInBatches
  k,               \* 1-based index of the chunk in the for loop
  processedItems,  \* local counter of processItemsInBatches
  failedItems,     \* local counter of processItemsInBatches
  errors,          \* local error list of processItemsInBatches
  promises,        \* call indices of the promises array handed to Promise.all
  caught,          \* the error the catch block of processBatch caught ("" if none)
  raised,          \* the error processBatch rejected with ("" if none)
  result,          \* the BatchProcessingResult processBatch resolved with (<<>> if none)
  attempt,         \* number of the processBatch invocation for the same request (1 = first delivery)
  pure,            \* the call of a pure function under examination (stage "none" while processBatch runs)
  frames,          \* the call frames of concurrent processItemsInBatches invocations (<<>> when one invocation runs alone)
  aggregates       \* the in-flight aggregate of each frame: processedItems, failedItems, errors

vars == <<pc, store, catalog, calls, outcomes, csvRows, items, batches, k,
          processedItems, failedItems, errors, promises, caught, raised, result,
          attempt, pure, frames, aggregates>>

loopVars == <<batches, k, processedItems, failedItems, errors, promises>>

\* index of the call the code awaits when it awaits a single call
LastCall == Len(calls)

Settle(outs, i, outcome) == [outs EXCEPT ![i] = outcome]

Init ==
  /\ pc = "idle"
  /\ store = <<>>
  /\ catalog \in InitialCatalogs
  /\ calls = <<>>
  /\ outcomes = <<>>
  /\ csvRows = <<>>
  /\ items = <<>>
  /\ batches = <<>>
  /\ k = 0
  /\ processedItems = 0
  /\ failedItems = 0
  /\ errors = <<>>
  /\ promises = <<>>
  /\ caught = ""
  /\ raised = ""
  /\ result = <<>>
  /\ attempt = 1
  /\ frames = <<>>
  /\ aggregates = <<>>
  /\ pure = [stage |-> "none"]

(***************************************************************************)
(* Continuations shared by the actions                                     *)
(***************************************************************************)
\* mutant: the batch id is recorded instead of the sentinel "batch"
FailedUpdates_BatchIdAsItem(message) ==
  [status |-> "failed",
   errors |-> <<[itemFederatedId |-> BatchId, error |-> message]>>]

\* the updates object of the catch block of processBatch
FailedUpdates(message) ==
  [status |-> "failed",
   errors |-> <<[itemFederatedId |-> "batch", error |-> message]>>]

\* mutant: the batch is marked completed as soon as the total is known
ProcessingUpdates_Completed(total) == [totalItems |-> total, status |-> "completed"]

\* the updates object of step 4 of processBatch
ProcessingUpdates(total) == [totalItems |-> total, status |-> "processing"]

\* catch (error) of processBatch: issue updateBatch(batchId, {status: failed, errors})
EnterCatch(message, outs) ==
  /\ caught' = message
  /\ calls' = Append(calls, [op |-> "updateBatch", batchId |-> BatchId,
                             updates |-> FailedUpdates(message)])
  /\ outcomes' = Append(outs, "pending")
  /\ pc' = "awaitCatchUpdate"

\* the loop locals when the for loop reaches its next await, entered at chunk j:
\* a chunk that fails the size precondition of processSingleBatch is counted
\* as failed without any call
RECURSIVE LoopState(_, _, _, _, _)
LoopState(bs, j, processed, failed, errs) ==
  IF j <= Len(bs) /\ Len(bs[j]) > MAX_BATCH_SIZE
    THEN LoopState(bs, j + 1, processed, failed + Len(bs[j]),
                   errs \o ChunkErrors(bs[j], SizeMessage(Len(bs[j]))))
    ELSE [k |-> j, processedItems |-> processed, failedItems |-> failed,
          errors |-> errs]

\* the updates object of the final updateBatch of processItemsInBatches
FinalUpdates(processed, failed, errs) ==
  [status |-> deriveStatus(processed, failed),
   processedItems |-> processed, failedItems |-> failed, errors |-> errs]

\* the call the loop issues next, entered at chunk j
NextLoopCall(bs, j, processed, failed, errs) ==
  LET st == LoopState(bs, j, processed, failed, errs)
  IN IF st.k <= Len(bs)
       THEN [op |-> "lookupItemsByFederatedIds", chunk |-> st.k,
             federatedIds |-> FederatedIdsOf(bs[st.k])]
       ELSE [op |-> "updateBatch", batchId |-> BatchId,
             updates |-> FinalUpdates(st.processedItems, st.failedItems, st.errors)]

\* run the for loop from chunk j up to its next await: the lookup of the next
\* chunk, or the final updateBatch when no chunk is left
ResumeLoop(bs, j, processed, failed, errs, outs) ==
  LET st == LoopState(bs, j, processed, failed, errs)
  IN /\ k' = st.k
     /\ processedItems' = st.processedItems
     /\ failedItems' = st.failedItems
     /\ errors' = st.errors
     /\ promises' = <<>>
     /\ calls' = Append(calls, NextLoopCall(bs, j, processed, failed, errs))
     /\ outcomes' = Append(outs, "pending")
     /\ pc' = IF st.k <= Len(bs) THEN "awaitLookup" ELSE "awaitFinalUpdate"

\* mutant: a failed chunk ends the loop (break), the later chunks are skipped
ChunkFailed_Break(message, outs) ==
  ResumeLoop(batches, Len(batches) + 1, processedItems,
             failedItems + Len(batches[k]),
             errors \o ChunkErrors(batches[k], message), outs)

\* the catch of the for loop: the whole chunk is counted as failed
ChunkFailed(message, outs) ==
  ResumeLoop(batches, k + 1, processedItems,
             failedItems + Len(batches[k]),
             errors \o ChunkErrors(batches[k], message), outs)

\* processSingleBatch returned: the whole chunk is counted as processed
ChunkProcessed(outs) ==
  ResumeLoop(batches, k + 1, processedItems + Len(batches[k]),
             failedItems, errors, outs)

(***************************************************************************)
(* processBatch                                                            *)
(***************************************************************************)
\* processBatch is called: createInitialBatch issues saveBatch(batch)
ProcessBatch ==
  /\ pc = "idle"
  /\ calls' = Append(calls, [op |-> "saveBatch", batch |-> InitialBatch(BatchId)])
  /\ outcomes' = Append(outcomes, "pending")
  /\ pc' = "awaitSave"
  /\ UNCHANGED <<attempt, pure, frames, aggregates, store, catalog, csvRows, items, loopVars, caught, raised, result>>

\* saveBatch resolves: the record is persisted, parseCsvContent is called
SaveBatchResolves ==
  /\ pc = "awaitSave"
  /\ store' = [id \in DOMAIN store \cup {BatchId} |->
                 IF id = BatchId THEN calls[LastCall].batch ELSE store[id]]
  /\ calls' = Append(calls, [op |-> "parseCsvContent"])
  /\ outcomes' = Append(Settle(outcomes, LastCall, "ok"), "pending")
  /\ pc' = "awaitParse"
  /\ UNCHANGED <<attempt, pure, frames, aggregates, catalog, csvRows, items, loopVars, caught, raised, result>>

\* mutant: the rejection of saveBatch is swallowed and parsing goes on
SaveBatchRejects_Swallowed ==
  /\ pc = "awaitSave"
  /\ calls' = Append(calls, [op |-> "parseCsvContent"])
  /\ outcomes' = Append(Settle(outcomes, LastCall, SaveError), "pending")
  /\ pc' = "awaitParse"
  /\ UNCHANGED <<attempt, pure, frames, aggregates, store, catalog, csvRows, items, loopVars, caught, raised, result>>

\* saveBatch rejects: caught by the catch block
SaveBatchRejects ==
  /\ pc = "awaitSave"
  /\ EnterCatch(SaveError, Settle(outcomes, LastCall, SaveError))
  /\ UNCHANGED <<attempt, pure, frames, aggregates, store, catalog, csvRows, items, loopVars, raised, result>>

\* parseCsvContent resolves with rows: transform, ensure families, then
\* updateBatch(batchId, {totalItems, status: processing})
ParseResolves ==
  /\ pc = "awaitParse"
  /\ \E rows \in ParsedInputs :
       \* the same csvContent parses to the same rows on a later attempt
       /\ attempt > 1 => rows = csvRows
       /\ csvRows' = rows
       /\ items' = ensureFamilyItemsExist(transformCsvRowsToItems(rows), rows)
  /\ calls' = Append(calls, [op |-> "updateBatch", batchId |-> BatchId,
                             updates |-> ProcessingUpdates(Len(items'))])
  /\ outcomes' = Append(Settle(outcomes, LastCall, "ok"), "pending")
  /\ pc' = "awaitProcessingUpdate"
  /\ UNCHANGED <<attempt, pure, frames, aggregates, store, catalog, loopVars, caught, raised, result>>

\* parseCsvContent rejects: caught by the catch block
ParseRejects ==
  /\ pc = "awaitParse"
  /\ EnterCatch(ParseError, Settle(outcomes, LastCall, ParseError))
  /\ UNCHANGED <<attempt, pure, frames, aggregates, store, catalog, csvRows, items, loopVars, raised, result>>

\* the processing update resolves: processItemsInBatches starts, chunks the
\* items and runs to its first await
ProcessingUpdateResolves ==
  /\ pc = "awaitProcessingUpdate"
  /\ store' = StoreAfterUpdate(store, BatchId, calls[LastCall].updates)
  /\ batches' = chunkArray(items, MAX_BATCH_SIZE)
  /\ ResumeLoop(chunkArray(items, MAX_BATCH_SIZE), 1, 0, 0, <<>>,
                Settle(outcomes, LastCall, "ok"))
  /\ UNCHANGED <<attempt, pure, frames, aggregates, catalog, csvRows, items, caught, raised, result>>

\* mutant: the rejection of the processing update is swallowed and the
\* chunks are reconciled anyway
ProcessingUpdateRejects_Swallowed ==
  /\ pc = "awaitProcessingUpdate"
  /\ batches' = chunkArray(items, MAX_BATCH_SIZE)
  /\ ResumeLoop(chunkArray(items, MAX_BATCH_SIZE), 1, 0, 0, <<>>,
                Settle(outcomes, LastCall, StoreUpdateError))
  /\ UNCHANGED <<attempt, pure, frames, aggregates, store, catalog, csvRows, items, caught, raised, result>>

\* the processing update rejects: caught by the catch block
ProcessingUpdateRejects ==
  /\ pc = "awaitProcessingUpdate"
  /\ EnterCatch(StoreUpdateError, Settle(outcomes, LastCall, StoreUpdateError))
  /\ UNCHANGED <<attempt, pure, frames, aggregates, store, catalog, csvRows, items, loopVars, raised, result>>

(***************************************************************************)
(* processSingleBatch inside the for loop of processItemsInBatches         *)
(***************************************************************************)
\* the create and update calls processSingleBatch issues after the lookup
WriteCalls(chunk, chunkIndex, existingItems) ==
  LET toCreate == ItemsToCreate(chunk, existingItems)
      toUpdate == ItemsToUpdate(chunk, existingItems)
  IN (IF Len(toCreate) > 0
        THEN <<[op |-> "createItemsBatch", chunk |-> chunkIndex, items |-> toCreate]>>
        ELSE <<>>)
     \o
     (IF Len(toUpdate) > 0
        THEN <<[op |-> "updateItemsBatch", chunk |-> chunkIndex, items |-> toUpdate]>>
        ELSE <<>>)

\* the lookup resolves: partition the chunk, issue create and update, await both
LookupResolves ==
  /\ pc = "awaitLookup"
  /\ LET existingItems == LookupResult(catalog, calls[LastCall].federatedIds)
         issued == WriteCalls(batches[k], k, existingItems)
         outs == Settle(outcomes, LastCall, "ok")
     IN IF issued = <<>>
          THEN \* Promise.all([]) resolves
               /\ ChunkProcessed(outs)
          ELSE /\ calls' = calls \o issued
               /\ outcomes' = outs \o [i \in 1..Len(issued) |-> "pending"]
               /\ promises' = [i \in 1..Len(issued) |-> Len(calls) + i]
               /\ pc' = "awaitAll"
               /\ UNCHANGED <<k, processedItems, failedItems, errors>>
  /\ UNCHANGED <<attempt, pure, frames, aggregates, store, catalog, csvRows, items, batches, caught, raised, result>>

\* mutant: a rejected lookup is retried for the same chunk
LookupRejects_Retry ==
  /\ pc = "awaitLookup"
  /\ calls' = Append(calls, calls[LastCall])
  /\ outcomes' = Append(Settle(outcomes, LastCall, LookupError), "pending")
  /\ UNCHANGED <<attempt, pure, frames, aggregates, pc, store, catalog, csvRows, items, loopVars,
                 caught, raised, result>>

\* mutant: a rejected lookup is rethrown to the catch block of processBatch
LookupRejects_Rethrown ==
  /\ pc = "awaitLookup"
  /\ EnterCatch(LookupError, Settle(outcomes, LastCall, LookupError))
  /\ UNCHANGED <<attempt, pure, frames, aggregates, store, catalog, csvRows, items, loopVars,
                 raised, result>>

\* the lookup rejects: the chunk is counted as failed, the loop goes on
LookupRejects ==
  /\ pc = "awaitLookup"
  /\ ChunkFailed(LookupError, Settle(outcomes, LastCall, LookupError))
  /\ UNCHANGED <<attempt, pure, frames, aggregates, store, catalog, csvRows, items, batches, caught, raised, result>>

\* calls[i] is a pending call of the given operation
Pending(i, op) ==
  /\ i \in 1..Len(calls)
  /\ calls[i].op = op
  /\ outcomes[i] = "pending"

\* a create or update call fulfils: Promise.all fulfils when it was the last
FulfilPromise(i) ==
  LET outs == Settle(outcomes, i, "ok")
  IN IF pc = "awaitAll" /\ i \in Range(promises)
       THEN IF \A j \in Range(promises) : outs[j] = "ok"
              THEN ChunkProcessed(outs)
              ELSE /\ outcomes' = outs
                   /\ UNCHANGED <<pc, calls, k, processedItems, failedItems,
                                  errors, promises>>
       ELSE /\ outcomes' = outs
            /\ UNCHANGED <<pc, calls, k, processedItems, failedItems,
                           errors, promises>>

\* a create or update call rejects: Promise.all rejects with the first rejection
RejectPromise(i, message) ==
  LET outs == Settle(outcomes, i, message)
  IN IF pc = "awaitAll" /\ i \in Range(promises)
       THEN ChunkFailed(message, outs)
       ELSE /\ outcomes' = outs
            /\ UNCHANGED <<pc, calls, k, processedItems, failedItems,
                           errors, promises>>

CreateResolves ==
  \E i \in 1..Len(calls) :
    /\ Pending(i, "createItemsBatch")
    /\ catalog' = CatalogAfterCreate(catalog, calls[i].items)
    /\ FulfilPromise(i)
    /\ UNCHANGED <<attempt, pure, frames, aggregates, store, csvRows, items, batches, caught, raised, result>>

CreateRejects ==
  \E i \in 1..Len(calls) :
    /\ Pending(i, "createItemsBatch")
    /\ RejectPromise(i, CreateError)
    /\ UNCHANGED <<attempt, pure, frames, aggregates, store, catalog, csvRows, items, batches, caught, raised, result>>

UpdateItemsResolves ==
  \E i \in 1..Len(calls) :
    /\ Pending(i, "updateItemsBatch")
    /\ FulfilPromise(i)
    /\ UNCHANGED <<attempt, pure, frames, aggregates, store, catalog, csvRows, items, batches, caught, raised, result>>

UpdateItemsRejects ==
  \E i \in 1..Len(calls) :
    /\ Pending(i, "updateItemsBatch")
    /\ RejectPromise(i, UpdateItemsError)
    /\ UNCHANGED <<attempt, pure, frames, aggregates, store, catalog, csvRows, items, batches, caught, raised, result>>

(***************************************************************************)
(* End of processItemsInBatches and of processBatch                        *)
(***************************************************************************)
\* mutant: the result reports the items handled as the total
ResultOf_HandledAsTotal(batchId, finalBatch) ==
  [batchId |-> batchId, status |-> finalBatch.status,
   totalItems |-> finalBatch.processedItems,
   processedItems |-> finalBatch.processedItems,
   failedItems |-> finalBatch.failedItems, errors |-> finalBatch.errors]

\* the BatchProcessingResult built from the batch the final update returned
ResultOf(batchId, finalBatch) ==
  [batchId |-> batchId, status |-> finalBatch.status,
   totalItems |-> finalBatch.totalItems,
   processedItems |-> finalBatch.processedItems,
   failedItems |-> finalBatch.failedItems, errors |-> finalBatch.errors]

\* CreateBatchCommand.execute: awaits processBatch and returns its result as it is
\* (<<>> while processBatch has not returned)
CreateBatchCommandResult == result

\* the final updateBatch resolves: processBatch returns the result
FinalUpdateResolves ==
  /\ pc = "awaitFinalUpdate"
  /\ store' = StoreAfterUpdate(store, BatchId, calls[LastCall].updates)
  /\ result' = ResultOf(BatchId, store'[BatchId])
  /\ outcomes' = Settle(outcomes, LastCall, "ok")
  /\ pc' = "done"
  /\ UNCHANGED <<attempt, pure, frames, aggregates, catalog, calls, csvRows, items, loopVars, caught, raised>>

\* the final updateBatch rejects: caught by the catch block of processBatch
FinalUpdateRejects ==
  /\ pc = "awaitFinalUpdate"
  /\ EnterCatch(StoreUpdateError, Settle(outcomes, LastCall, StoreUpdateError))
  /\ UNCHANGED <<attempt, pure, frames, aggregates, store, catalog, csvRows, items, loopVars, raised, result>>

\* the updateBatch of the catch block resolves: throw error
CatchUpdateResolves ==
  /\ pc = "awaitCatchUpdate"
  /\ store' = StoreAfterUpdate(store, BatchId, calls[LastCall].updates)
  /\ outcomes' = Settle(outcomes, LastCall, "ok")
  /\ raised' = caught
  /\ pc' = "done"
  /\ UNCHANGED <<attempt, pure, frames, aggregates, catalog, calls, csvRows, items, loopVars, caught, result>>

\* the updateBatch of the catch block rejects: its rejection leaves processBatch
CatchUpdateRejects ==
  /\ pc = "awaitCatchUpdate"
  /\ outcomes' = Settle(outcomes, LastCall, StoreUpdateError)
  /\ raised' = StoreUpdateError
  /\ pc' = "done"
  /\ UNCHANGED <<attempt, pure, frames, aggregates, store, catalog, calls, csvRows, items, loopVars, caught, result>>

Next ==
  \/ ProcessBatch
  \/ SaveBatchResolves
  \/ SaveBatchRejects
  \/ ParseResolves
  \/ ParseRejects
  \/ ProcessingUpdateResolves
  \/ ProcessingUpdateRejects
  \/ LookupResolves
  \/ LookupRejects
  \/ CreateResolves
  \/ CreateRejects
  \/ UpdateItemsResolves
  \/ UpdateItemsRejects
  \/ FinalUpdateResolves
  \/ FinalUpdateRejects
  \/ CatchUpdateResolves
  \/ CatchUpdateRejects

Spec == Init /\ [][Next]_vars

(***************************************************************************)
(* processBatch on any valid rows, rows sharing a federatedId included     *)
(***************************************************************************)
\* parseCsvContent resolves with rows that may repeat a federatedId
ParseResolvesRepeated ==
  /\ pc = "awaitParse"
  /\ \E rows \in ParsedInputs \cup RepeatedInputs :
       /\ attempt > 1 => rows = csvRows
       /\ csvRows' = rows
       /\ items' = ensureFamilyItemsExist(transformCsvRowsToItems(rows), rows)
  /\ calls' = Append(calls, [op |-> "updateBatch", batchId |-> BatchId,
                             updates |-> ProcessingUpdates(Len(items'))])
  /\ outcomes' = Append(Settle(outcomes, LastCall, "ok"), "pending")
  /\ pc' = "awaitProcessingUpdate"
  /\ UNCHANGED <<attempt, pure, frames, aggregates, store, catalog, loopVars, caught, raised, result>>

NextRepeated ==
  \/ ProcessBatch
  \/ SaveBatchResolves
  \/ SaveBatchRejects
  \/ ParseResolvesRepeated
  \/ ParseRejects
  \/ ProcessingUpdateResolves
  \/ ProcessingUpdateRejects
  \/ LookupResolves
  \/ LookupRejects
  \/ CreateResolves
  \/ CreateRejects
  \/ UpdateItemsResolves
  \/ UpdateItemsRejects
  \/ FinalUpdateResolves
  \/ FinalUpdateRejects
  \/ CatchUpdateResolves
  \/ CatchUpdateRejects

SpecRepeated == Init /\ [][NextRepeated]_vars

(***************************************************************************)
(* Re-run: the caller invokes processBatch again with the same request     *)
(* after an attempt that created items and did not complete                *)
(***************************************************************************)
\* an earlier attempt is over, created some items and left some uncounted:

\* processBatch is invoked again: a fresh invocation (fresh batch id, hence no
\* record yet, fresh locals) against the catalog the earlier attempt left
Redeliver ==
  /\ pc = "done"
  /\ \A i \in 1..Len(calls) : outcomes[i] # "pending"
  /\ \E i \in 1..Len(calls) : calls[i].op = "createItemsBatch" /\ outcomes[i] = "ok"
  /\ IF result = <<>> THEN TRUE ELSE result.failedItems > 0
  /\ attempt < MaxAttempts
  /\ attempt' = attempt + 1
  /\ pc' = "idle"
  /\ store' = <<>>
  /\ calls' = <<>>
  /\ outcomes' = <<>>
  /\ items' = <<>>
  /\ batches' = <<>>
  /\ k' = 0
  /\ processedItems' = 0
  /\ failedItems' = 0
  /\ errors' = <<>>
  /\ promises' = <<>>
  /\ caught' = ""
  /\ raised' = ""
  /\ result' = <<>>
  /\ UNCHANGED <<catalog, csvRows, pure, frames, aggregates>>

NextRedelivery ==
  \/ Next
  \/ Redeliver

SpecRedelivery == Init /\ [][NextRedelivery]_vars

(***************************************************************************)
(* The same program against an item service whose lookup may report any    *)
(* string as internal id, the empty string included (Map<string, string>)  *)
(***************************************************************************)
InitAnyInternalId ==
  /\ pc = "idle"
  /\ store = <<>>
  /\ catalog \in InitialCatalogs \cup
       {[id \in DOMAIN cat |-> IF id = FamilyId(1) THEN "" ELSE cat[id]] :
          cat \in {c \in InitialCatalogs : FamilyId(1) \in DOMAIN c}}
  /\ calls = <<>>
  /\ outcomes = <<>>
  /\ csvRows = <<>>
  /\ items = <<>>
  /\ batches = <<>>
  /\ k = 0
  /\ processedItems = 0
  /\ failedItems = 0
  /\ errors = <<>>
  /\ promises = <<>>
  /\ caught = ""
  /\ raised = ""
  /\ result = <<>>
  /\ attempt = 1
  /\ frames = <<>>
  /\ aggregates = <<>>
  /\ pure = [stage |-> "none"]

SpecAnyInternalId == InitAnyInternalId /\ [][Next]_vars

(***************************************************************************)
(* The pure functions examined alone: the transformation service and       *)
(* chunkArray applied to every short sequence of valid rows over a few     *)
(* ids (families may be declared twice, referenced without a declaration,  *)
(* and an option may carry the id of a family)                             *)
(***************************************************************************)
SmallFamilyIds == {"f1", "f2"}

\* the valid rows that may stand at position i (title and details tell the
\* positions apart)
SmallRowsAt(i) ==
  {[familyFederatedId |-> f,
    title |-> "T" \o ToString(i), details |-> "D" \o ToString(i)] :
     f \in SmallFamilyIds}
  \cup
  {[familyFederatedId |-> f, optionFederatedId |-> o,
    title |-> "T" \o ToString(i), details |-> "D" \o ToString(i)] :
     f \in SmallFamilyIds, o \in {"o1", "o2", "f1"}}

RECURSIVE SmallRowSeqsOfLen(_)
SmallRowSeqsOfLen(n) ==
  IF n = 0 THEN {<<>>}
  ELSE {Append(front, row) : front \in SmallRowSeqsOfLen(n - 1), row \in SmallRowsAt(n)}

\* the variables of processBatch, which the pure calls leave alone
programVars == <<pc, store, catalog, calls, outcomes, csvRows, items, batches, k,
                 processedItems, failedItems, errors, promises, caught, raised,
                 result, attempt, frames, aggregates>>

InitTransformation ==
  /\ pc = "idle"
  /\ store = <<>>
  /\ catalog = <<>>
  /\ calls = <<>>
  /\ outcomes = <<>>
  /\ csvRows = <<>>
  /\ items = <<>>
  /\ batches = <<>>
  /\ k = 0
  /\ processedItems = 0
  /\ failedItems = 0
  /\ errors = <<>>
  /\ promises = <<>>
  /\ caught = ""
  /\ raised = ""
  /\ result = <<>>
  /\ attempt = 1
  /\ frames = <<>>
  /\ aggregates = <<>>
  /\ \E rows \in UNION {SmallRowSeqsOfLen(n) : n \in 0..MaxSmallRows} :
        pure = [stage |-> "rows", rows |-> rows]

\* transformedItems = transformCsvRowsToItems(csvRows)
TransformRows ==
  /\ pure.stage = "rows"
  /\ pure' = [stage |-> "transformed", rows |-> pure.rows,
              items |-> transformCsvRowsToItems(pure.rows)]
  /\ UNCHANGED programVars

\* itemsWithFamilies = ensureFamilyItemsExist(transformedItems, csvRows)
EnsureFamilies ==
  /\ pure.stage = "transformed"
  /\ pure' = [stage |-> "ensured", rows |-> pure.rows, items |-> pure.items,
              ensured |-> ensureFamilyItemsExist(pure.items, pure.rows)]
  /\ UNCHANGED programVars

\* ensureFamilyItemsExist called on its own output with the same rows
EnsureFamiliesAgain ==
  /\ pure.stage = "ensured"
  /\ pure' = [stage |-> "ensuredTwice", rows |-> pure.rows, items |-> pure.items,
              ensured |-> pure.ensured,
              again |-> ensureFamilyItemsExist(pure.ensured, pure.rows)]
  /\ UNCHANGED programVars

\* chunkArray(itemsWithFamilies, chunkSize)
ChunkItems ==
  /\ pure.stage = "ensured"
  /\ \E chunkSize \in 1..MaxChunkSize :
       pure' = [stage |-> "chunked", array |-> pure.ensured, chunkSize |-> chunkSize,
                chunks |-> chunkArray(pure.ensured, chunkSize)]
  /\ UNCHANGED programVars

NextTransformation ==
  \/ TransformRows
  \/ EnsureFamilies
  \/ EnsureFamiliesAgain
  \/ ChunkItems

SpecTransformation == InitTransformation /\ [][NextTransformation]_vars

(***************************************************************************)
(* Interruption: the process running processBatch is stopped while the for *)
(* loop of processItemsInBatches is suspended at an await; the code has no *)
(* cancellation handler, so nothing of the invocation runs afterwards      *)
(***************************************************************************)
Interrupt ==
  /\ pc \in {"awaitLookup", "awaitAll"}
  /\ pc' = "interrupted"
  /\ UNCHANGED <<attempt, pure, frames, aggregates, store, catalog, calls, outcomes,
                 csvRows, items, loopVars, caught, raised, result>>

NextInterrupted ==
  \/ Next
  \/ Interrupt

SpecInterrupted == Init /\ [][NextInterrupted]_vars

(***************************************************************************)
(* Concurrent invocations: processBatch is called several times on one     *)
(* BatchProcessingService instance and the calls interleave at their       *)
(* awaits. Each call is taken from the point where it enters               *)
(* processItemsInBatches (its record saved and marked processing); one     *)
(* step is the settling of processSingleBatch or of the final updateBatch. *)
(***************************************************************************)
\* generateBatchId: every invocation has an id of its own
FrameBatchId(i) == "batch_" \o ToString(i)

\* mutant: the counters and the error list are fields of the service instance
AggregateOf_InstanceField(i) == 1

\* the aggregate invocation i works on: the locals of its own call frame
AggregateOf(i) == i

\* invocation i resumes while another invocation is suspended at an await
Overlaps(i) ==
  \E j \in DOMAIN frames :
    j # i /\ frames[j].pc \in {"awaitSingleBatch", "awaitFinalUpdate"}

InitInterleaved ==
  /\ pc = "idle"
  /\ store = <<>>
  /\ catalog = <<>>
  /\ calls = <<>>
  /\ outcomes = <<>>
  /\ csvRows = <<>>
  /\ items = <<>>
  /\ batches = <<>>
  /\ k = 0
  /\ processedItems = 0
  /\ failedItems = 0
  /\ errors = <<>>
  /\ promises = <<>>
  /\ caught = ""
  /\ raised = ""
  /\ result = <<>>
  /\ attempt = 1
  /\ pure = [stage |-> "none"]
  /\ frames = [i \in 1..MaxInvocations |->
                 [pc |-> "idle", batches |-> <<>>, k |-> 0, settled |-> <<>>,
                  updates |-> <<>>, result |-> <<>>, overlapped |-> FALSE]]
  /\ aggregates = [i \in 1..MaxInvocations |-> [processedItems |-> 0, failedItems |-> 0, errors |-> <<>>]]

\* the for loop of frame i goes on at chunk j: it awaits processSingleBatch of
\* that chunk, or builds the final updates and awaits updateBatch
FrameAt(i, j, aggs, outcome) ==
  LET agg == aggs[AggregateOf(i)]
      done == j > Len(frames[i].batches)
  IN [frames[i] EXCEPT
        !.k = j,
        !.settled = IF outcome = "" THEN @ ELSE Append(@, outcome),
        !.pc = IF done THEN "awaitFinalUpdate" ELSE "awaitSingleBatch",
        !.updates = IF done
                      THEN FinalUpdates(agg.processedItems, agg.failedItems, agg.errors)
                      ELSE @,
        !.overlapped = @ \/ Overlaps(i)]

\* invocation i enters processItemsInBatches: the aggregate is initialised, the
\* items are chunked and the first chunk is handed to processSingleBatch
ProcessItemsInBatches(i) ==
  /\ frames[i].pc = "idle"
  \* the invocations work on different ids and on no item, one chunk or two chunks
  /\ \E n \in {0, 1, MAX_BATCH_SIZE + 1} :
       LET itemsOfI == transformCsvRowsToItems(
                         RowsOf(IF i % 2 = 1 THEN "families" ELSE "orphans", n))
           chunks == chunkArray(itemsOfI, MAX_BATCH_SIZE)
       IN /\ aggregates' = [aggregates EXCEPT ![AggregateOf(i)] =
                                         [processedItems |-> 0, failedItems |-> 0, errors |-> <<>>]]
          /\ frames' = [frames EXCEPT ![i] =
                          [pc |-> IF chunks = <<>>
                                    THEN "awaitFinalUpdate" ELSE "awaitSingleBatch",
                           batches |-> chunks, k |-> 1, settled |-> <<>>,
                           updates |-> IF chunks = <<>>
                                         THEN FinalUpdates(0, 0, <<>>) ELSE <<>>,
                           result |-> <<>>, overlapped |-> Overlaps(i)]]
          /\ store' = [id \in DOMAIN store \cup {FrameBatchId(i)} |->
                         IF id = FrameBatchId(i)
                           THEN MergeUpdates(InitialBatch(id), ProcessingUpdates(Len(itemsOfI)))
                           ELSE store[id]]
  /\ UNCHANGED <<pc, catalog, calls, outcomes, csvRows, items, loopVars, caught,
                 raised, result, attempt, pure>>

\* processSingleBatch of the current chunk of frame i returns:
\* processedItems += batch.length
SingleBatchResolves(i) ==
  /\ frames[i].pc = "awaitSingleBatch"
  /\ LET batch == frames[i].batches[frames[i].k]
         aggs == [aggregates EXCEPT
                    ![AggregateOf(i)].processedItems = @ + Len(batch)]
     IN /\ aggregates' = aggs
        /\ frames' = [frames EXCEPT ![i] = FrameAt(i, frames[i].k + 1, aggs, "ok")]
  /\ UNCHANGED <<pc, store, catalog, calls, outcomes, csvRows, items, loopVars,
                 caught, raised, result, attempt, pure>>

\* processSingleBatch of the current chunk of frame i throws:
\* failedItems += batch.length and one error per item is pushed
SingleBatchRejects(i) ==
  /\ frames[i].pc = "awaitSingleBatch"
  /\ \E message \in {LookupError, CreateError} :
       LET batch == frames[i].batches[frames[i].k]
           aggs == [aggregates EXCEPT
                      ![AggregateOf(i)].failedItems = @ + Len(batch),
                      ![AggregateOf(i)].errors = @ \o ChunkErrors(batch, message)]
       IN /\ aggregates' = aggs
          /\ frames' = [frames EXCEPT ![i] = FrameAt(i, frames[i].k + 1, aggs, message)]
  /\ UNCHANGED <<pc, store, catalog, calls, outcomes, csvRows, items, loopVars,
                 caught, raised, result, attempt, pure>>

\* the final updateBatch of frame i resolves: the invocation returns its result
FrameFinalUpdateResolves(i) ==
  /\ frames[i].pc = "awaitFinalUpdate"
  /\ store' = StoreAfterUpdate(store, FrameBatchId(i), frames[i].updates)
  /\ frames' = [frames EXCEPT
                  ![i].pc = "done",
                  ![i].result = ResultOf(FrameBatchId(i), store'[FrameBatchId(i)]),
                  ![i].overlapped = @ \/ Overlaps(i)]
  /\ UNCHANGED <<pc, catalog, calls, outcomes, csvRows, items, loopVars, caught,
                 raised, result, attempt, pure, aggregates>>

NextInterleaved ==
  \E i \in 1..MaxInvocations :
    \/ ProcessItemsInBatches(i)
    \/ SingleBatchResolves(i)
    \/ SingleBatchRejects(i)
    \/ FrameFinalUpdateResolves(i)

SpecInterleaved == InitInterleaved /\ [][NextInterleaved]_vars

(***************************************************************************)
(* The transformation service on every row the CsvRow type accepts:        *)
(* optionFederatedId absent, the empty string, or a non-empty string       *)
(***************************************************************************)
RECURSIVE AnyCsvRowSeqsOfLen(_)
AnyCsvRowSeqsOfLen(n) ==
  IF n = 0 THEN {<<>>}
  ELSE {Append(front, row) :
          front \in AnyCsvRowSeqsOfLen(n - 1),
          row \in SmallRowsAt(n) \cup
                  {[familyFederatedId |-> f, optionFederatedId |-> "",
                    title |-> "T" \o ToString(n), details |-> "D" \o ToString(n)] :
                     f \in SmallFamilyIds}}

InitAnyCsvRow ==
  /\ pc = "idle"
  /\ store = <<>>
  /\ catalog = <<>>
  /\ calls = <<>>
  /\ outcomes = <<>>
  /\ csvRows = <<>>
  /\ items = <<>>
  /\ batches = <<>>
  /\ k = 0
  /\ processedItems = 0
  /\ failedItems = 0
  /\ errors = <<>>
  /\ promises = <<>>
  /\ caught = ""
  /\ raised = ""
  /\ result = <<>>
  /\ attempt = 1
  /\ frames = <<>>
  /\ aggregates = <<>>
  /\ \E rows \in UNION {AnyCsvRowSeqsOfLen(n) : n \in 0..MaxSmallRows} :
        pure = [stage |-> "rows", rows |-> rows]

SpecAnyCsvRow == InitAnyCsvRow /\ [][NextTransformation]_vars

(***************************************************************************)
(* CsvParsingRepositoryImpl.parseCsvContent examined alone. Cell values    *)
(* are sequences of characters, so that trim() is computed. The input is   *)
(* what the csv-parse call (columns: true) yields: it throws, or returns   *)
(* records that all have the columns of the header line.                   *)
(***************************************************************************)
Whitespace == {" ", "\t"}

\* String.prototype.trim
Trim(str) ==
  LET kept == {n \in 1..Len(str) : str[n] \notin Whitespace}
  IN IF kept = {} THEN <<>>
     ELSE SubSeq(str,
                 CHOOSE n \in kept : \A m \in kept : n <= m,
                 CHOOSE n \in kept : \A m \in kept : m <= n)

\* const requiredColumns = ["familyFederatedId", "title", "details"]
requiredColumns == <<"familyFederatedId", "title", "details">>

\* the values a cell of the given column may hold: empty, blank, or a padded value
CellsOf(column) ==
  CASE column = "familyFederatedId" -> <<<<>>, <<" ">>, <<" ", "f", " ">>>>
    [] column = "optionFederatedId" -> <<<<>>, <<" ">>, <<"o", " ">>>>
    [] column = "title"             -> <<<<" ", "\t">>, <<" ", "t">>>>
    [] column = "details"           -> <<<<>>, <<"d">>>>

\* the records with the given columns: one cell value picked for each column
CsvRecords(header) ==
  LET picks == {pick \in [header -> 1..3] :
                  \A c \in header : pick[c] <= Len(CellsOf(c))}
  IN {[c \in header |-> CellsOf(c)[pick[c]]] : pick \in picks}

RECURSIVE CsvRecordSeqsOfLen(_, _)
CsvRecordSeqsOfLen(header, n) ==
  IF n = 0 THEN {<<>>}
  ELSE {Append(front, rec) :
          front \in CsvRecordSeqsOfLen(header, n - 1), rec \in CsvRecords(header)}

\* requiredColumns.filter((col) => !availableColumns.includes(col)).join(", ")
RECURSIVE JoinMissing(_, _, _)
JoinMissing(availableColumns, n, sep) ==
  IF n > Len(requiredColumns) THEN ""
  ELSE IF requiredColumns[n] \in availableColumns
         THEN JoinMissing(availableColumns, n + 1, sep)
         ELSE sep \o requiredColumns[n] \o JoinMissing(availableColumns, n + 1, ", ")

\* the error the map callback throws for the record at the 0-based index, "" if none
RowError(typedRecord, index) ==
  IF Trim(typedRecord.familyFederatedId) = <<>>
    THEN "Row " \o ToString(index + 2) \o ": familyFederatedId is required"
  ELSE IF Trim(typedRecord.title) = <<>>
    THEN "Row " \o ToString(index + 2) \o ": title is required"
  ELSE IF Trim(typedRecord.details) = <<>>
    THEN "Row " \o ToString(index + 2) \o ": details is required"
  ELSE ""

\* the CsvRow the map callback returns for a record that passed the checks;
\* an optionFederatedId of undefined is an absent field
RowOfRecord(typedRecord) ==
  LET required == [familyFederatedId |-> Trim(typedRecord.familyFederatedId),
                   title |-> Trim(typedRecord.title),
                   details |-> Trim(typedRecord.details)]
      hasOption == /\ "optionFederatedId" \in DOMAIN typedRecord
                   /\ typedRecord.optionFederatedId # <<>>
                   /\ Trim(typedRecord.optionFederatedId) # <<>>
  IN IF hasOption
       THEN [c \in DOMAIN required \cup {"optionFederatedId"} |->
               IF c = "optionFederatedId"
                 THEN Trim(typedRecord.optionFederatedId) ELSE required[c]]
       ELSE required

\* mutant: the records that fail a check are left out and the others are returned
parseCsvContent_SkipsInvalid(library) ==
  IF library.threw
    THEN [rejected |-> TRUE, message |-> "CSV parsing failed: " \o library.message]
  ELSE IF Len(library.records) = 0
    THEN [rejected |-> TRUE,
          message |-> "CSV parsing failed: CSV contains no data rows"]
  ELSE IF JoinMissing(DOMAIN library.records[1], 1, "") # ""
    THEN [rejected |-> TRUE,
          message |-> "CSV parsing failed: CSV missing required columns: "
                        \o JoinMissing(DOMAIN library.records[1], 1, "")]
  ELSE LET Passes(rec) == RowError(rec, 0) = ""
           passed == SelectSeq(library.records, Passes)
       IN [rejected |-> FALSE,
           rows |-> [n \in 1..Len(passed) |-> RowOfRecord(passed[n])]]

\* parseCsvContent, given what the csv-parse call yielded
parseCsvContent(library) ==
  IF library.threw
    THEN [rejected |-> TRUE, message |-> "CSV parsing failed: " \o library.message]
  ELSE IF Len(library.records) = 0
    THEN [rejected |-> TRUE,
          message |-> "CSV parsing failed: CSV contains no data rows"]
  ELSE IF JoinMissing(DOMAIN library.records[1], 1, "") # ""
    THEN [rejected |-> TRUE,
          message |-> "CSV parsing failed: CSV missing required columns: "
                        \o JoinMissing(DOMAIN library.records[1], 1, "")]
  ELSE LET records == library.records
           failing == {n \in 1..Len(records) : RowError(records[n], n - 1) # ""}
       IN IF failing # {}
            \* the first throw inside map ends it; the catch wraps the message
            THEN LET n == CHOOSE n \in failing : \A m \in failing : n <= m
                 IN [rejected |-> TRUE,
                     message |-> "CSV parsing failed: " \o RowError(records[n], n - 1)]
            ELSE [rejected |-> FALSE,
                  rows |-> [n \in 1..Len(records) |-> RowOfRecord(records[n])]]

InitParsing ==
  /\ pc = "idle"
  /\ store = <<>>
  /\ catalog = <<>>
  /\ calls = <<>>
  /\ outcomes = <<>>
  /\ csvRows = <<>>
  /\ items = <<>>
  /\ batches = <<>>
  /\ k = 0
  /\ processedItems = 0
  /\ failedItems = 0
  /\ errors = <<>>
  /\ promises = <<>>
  /\ caught = ""
  /\ raised = ""
  /\ result = <<>>
  /\ attempt = 1
  /\ frames = <<>>
  /\ aggregates = <<>>
  \* what the csv-parse call yields: a throw, or the records
  /\ \/ pure = [stage |-> "csv",
                library |-> [threw |-> TRUE, message |-> "Invalid Record Length"]]
     \/ \E header \in
            {{"familyFederatedId", "optionFederatedId", "title", "details"},
             {"familyFederatedId", "title", "details"},
             {"familyFederatedId", "optionFederatedId", "details"},
             {"optionFederatedId", "title"}},
          n \in 0..MaxRecords :
          \E records \in CsvRecordSeqsOfLen(header, n) :
            pure = [stage |-> "csv",
                    library |-> [threw |-> FALSE, records |-> records]]

\* parseCsvContent(csvContent) settles
ParseCsvContent ==
  /\ pure.stage = "csv"
  /\ pure' = [stage |-> "parsed", library |-> pure.library,
              outcome |-> parseCsvContent(pure.library)]
  /\ UNCHANGED programVars

SpecParsing == InitParsing /\ [][ParseCsvContent]_vars

(***************************************************************************)
(* The router examined alone. A rawPath is a sequence of pieces, each a    *)
(* slash or a non-empty word without slash, no two words in a row (two     *)
(* adjacent words are one longer word).                                    *)
(***************************************************************************)
PathPieces == {"/", "batches", "health", "b1"}

\* a piece may follow the given front: a word only at the start or after a slash
MayFollow(front, piece) ==
  \/ piece = "/"
  \/ front = <<>>
  \/ front[Len(front)] = "/"

RECURSIVE PathsOfLen(_)
PathsOfLen(n) ==
  IF n = 0 THEN {<<>>}
  ELSE LET extended == {<<front, piece>> : front \in PathsOfLen(n - 1), piece \in PathPieces}
       IN {Append(fp[1], fp[2]) : fp \in {e \in extended : MayFollow(e[1], e[2])}}

RECURSIVE PathString(_)
PathString(path) ==
  IF path = <<>> THEN "" ELSE path[1] \o PathString(Tail(path))

\* path.match(pattern): the capture groups of the match, or no match
Match(pattern, path) ==
  CASE pattern = "^/batches$" ->
         [matched |-> path = <<"/", "batches">>, groups |-> <<>>]
    [] pattern = "^/batches/([^/]+)$" ->
         IF /\ Len(path) = 4
            /\ SubSeq(path, 1, 3) = <<"/", "batches", "/">>
            /\ path[4] # "/"
           THEN [matched |-> TRUE, groups |-> <<path[4]>>]
           ELSE [matched |-> FALSE, groups |-> <<>>]
    [] pattern = "^/health$" ->
         [matched |-> path = <<"/", "health">>, groups |-> <<>>]

\* const routes: Route[]; a route without paramNames has no such field
routes ==
  <<[method |-> "POST", pattern |-> "^/batches$", handler |-> "handleBatches"],
    [method |-> "GET", pattern |-> "^/batches/([^/]+)$", handler |-> "handleBatches",
     paramNames |-> <<"batchId">>],
    [method |-> "GET", pattern |-> "^/health$", handler |-> "healthCheck"]>>

extractParams(path, pattern, route) ==
  LET matches == Match(pattern, path)
  IN IF ~matches.matched \/ "paramNames" \notin DOMAIN route
       THEN <<>>
       ELSE [name \in Range(route.paramNames) |->
               LET index == CHOOSE n \in 1..Len(route.paramNames) :
                              route.paramNames[n] = name
               \* matches[index + 1] || ""
               IN IF index <= Len(matches.groups) THEN matches.groups[index] ELSE ""]

\* mutant: the method of the request is not compared
RouteMatches_AnyMethod(route, method, rawPath) ==
  Match(route.pattern, rawPath).matched

\* route.method === method && route.pattern.test(rawPath)
RouteMatches(route, method, rawPath) ==
  /\ route.method = method
  /\ Match(route.pattern, rawPath).matched

\* what the handler of the route answers; handleBatches is recorded as a call
HandlerResult(route, params) ==
  IF route.handler = "healthCheck"
    THEN [called |-> <<>>,
          statusCode |-> 200,
          body |-> [status |-> "healthy", version |-> "1.0.0"]]
    ELSE [called |-> <<[handler |-> route.handler, params |-> params]>>]

\* for (const route of routes), from the n-th route on
RECURSIVE RouteFrom(_, _, _)
RouteFrom(method, rawPath, n) ==
  IF n > Len(routes)
    THEN [called |-> <<>>,
          statusCode |-> 404,
          body |-> [error |-> "Not Found",
                    message |-> "Route " \o method \o " " \o PathString(rawPath)
                                  \o " not found"]]
  ELSE IF RouteMatches(routes[n], method, rawPath)
    THEN HandlerResult(routes[n],
                       extractParams(rawPath, routes[n].pattern, routes[n]))
  ELSE RouteFrom(method, rawPath, n + 1)

router(event) == RouteFrom(event.method, event.rawPath, 1)

InitRouter ==
  /\ pc = "idle"
  /\ store = <<>>
  /\ catalog = <<>>
  /\ calls = <<>>
  /\ outcomes = <<>>
  /\ csvRows = <<>>
  /\ items = <<>>
  /\ batches = <<>>
  /\ k = 0
  /\ processedItems = 0
  /\ failedItems = 0
  /\ errors = <<>>
  /\ promises = <<>>
  /\ caught = ""
  /\ raised = ""
  /\ result = <<>>
  /\ attempt = 1
  /\ frames = <<>>
  /\ aggregates = <<>>
  /\ \E method \in {"GET", "POST", "PUT", "DELETE"},
          rawPath \in UNION {PathsOfLen(n) : n \in 0..MaxPathPieces} :
       pure = [stage |-> "request", event |-> [method |-> method, rawPath |-> rawPath]]

\* router(event) settles
RouteRequest ==
  /\ pure.stage = "request"
  /\ pure' = [stage |-> "routed", event |-> pure.event, outcome |-> router(pure.event)]
  /\ UNCHANGED programVars

SpecRouter == InitRouter /\ [][RouteRequest]_vars

(***************************************************************************)
(* Reading a batch: BatchProcessingService.getBatchStatus and              *)
(* GetBatchQuery.execute against a status store holding some record        *)
(***************************************************************************)
\* what the store's getBatchById resolves with when nothing is stored
Null == [null |-> TRUE]

\* BatchRepository.getBatchById against the store st
getBatchById(st, batchId) == IF batchId \in DOMAIN st THEN st[batchId] ELSE Null

\* new NotFoundError(resource, id)
NotFoundError(resource, id) ==
  [name |-> "NotFoundError", code |-> "NOT_FOUND", message |-> resource \o " not found: " \o id]

\* getBatchStatus hands on the store's promise: its value or its rejection
getBatchStatus(settled) ==
  IF settled.rejected
    THEN [kind |-> "raised", error |-> [name |-> "Error", message |-> settled.message]]
    ELSE [kind |-> "returned", value |-> settled.value]

\* execute returns a batch whatever the store said
execute_NeverThrows(settled, batchId) ==
  IF settled.rejected
    THEN [kind |-> "raised", error |-> [name |-> "Error", message |-> settled.message]]
    ELSE [kind |-> "returned", value |-> settled.value]

\* GetBatchQuery.execute: the batch, NotFoundError for null, the store's
\* rejection rethrown by the catch block
execute(settled, batchId) ==
  IF settled.rejected
    THEN [kind |-> "raised", error |-> [name |-> "Error", message |-> settled.message]]
    ELSE IF settled.value = Null
      THEN [kind |-> "raised", error |-> NotFoundError("Batch", batchId)]
      ELSE [kind |-> "returned", value |-> settled.value]

\* the status store a reader meets is empty, or holds the record as saved,
\* as updated to processing, or as updated by a terminal update
InitReading ==
  /\ pc = "idle"
  /\ store \in
       {<<>>,
        [id \in {BatchId} |-> InitialBatch(BatchId)],
        [id \in {BatchId} |-> MergeUpdates(InitialBatch(BatchId),
                                [status |-> "processing", totalItems |-> 2])],
        [id \in {BatchId} |-> MergeUpdates(InitialBatch(BatchId),
                                [status |-> "partial", totalItems |-> 2, processedItems |-> 1,
                                 failedItems |-> 1, errors |-> <<CreateError>>])]}
  /\ catalog \in InitialCatalogs
  /\ calls = <<>>
  /\ outcomes = <<>>
  /\ csvRows = <<>>
  /\ items = <<>>
  /\ batches = <<>>
  /\ k = 0
  /\ processedItems = 0
  /\ failedItems = 0
  /\ errors = <<>>
  /\ promises = <<>>
  /\ caught = ""
  /\ raised = ""
  /\ result = <<>>
  /\ attempt = 1
  /\ frames = <<>>
  /\ aggregates = <<>>
  /\ pure = [stage |-> "reading", reader |-> "none", results |-> <<>>]

readVars == <<pc, catalog, csvRows, items, batches, k, processedItems, failedItems,
              errors, promises, caught, raised, result, attempt, frames, aggregates>>

\* getBatchStatus(batchId) or GetBatchQuery.execute(batchId) is called, with
\* the stored batch's id or one nothing is stored under: the reader calls
\* the store and waits
ReadBatch(reader) ==
  /\ pure.stage = "reading"
  /\ pure.reader = "none"
  /\ Len(calls) < MaxReads
  /\ \E batchId \in {BatchId, "batch_0"} :
       calls' = Append(calls, [op |-> "getBatchById", batchId |-> batchId])
  /\ outcomes' = Append(outcomes, "pending")
  /\ pure' = [pure EXCEPT !.reader = reader]
  /\ UNCHANGED <<store, readVars>>

ReadSettles(settled, outcome) ==
  /\ pure.stage = "reading"
  /\ pure.reader # "none"
  /\ outcomes' = Settle(outcomes, LastCall, outcome)
  /\ pure' = [pure EXCEPT !.reader = "none",
                          !.results = Append(@, IF pure.reader = "getBatchStatus"
                                                  THEN getBatchStatus(settled)
                                                  ELSE execute(settled, calls[LastCall].batchId))]
  /\ UNCHANGED <<store, calls, readVars>>

\* getBatchById resolves with the stored record or null
GetBatchByIdResolves ==
  /\ calls # <<>>
  /\ ReadSettles([rejected |-> FALSE,
                  value |-> getBatchById(store, calls[LastCall].batchId)], "ok")

\* getBatchById rejects
GetBatchByIdRejects ==
  /\ calls # <<>>
  /\ ReadSettles([rejected |-> TRUE, message |-> "status store unavailable"],
                 "status store unavailable")

NextReading ==
  \/ ReadBatch("getBatchStatus")
  \/ ReadBatch("execute")
  \/ GetBatchByIdResolves
  \/ GetBatchByIdRejects

SpecReading == InitReading /\ [][NextReading]_vars

(***************************************************************************)
(* SQSRepositoryImpl.publishBatches: the requests are sent to a FIFO queue *)
(* in SendMessageBatch calls of at most 10 entries, one call after another *)
(***************************************************************************)
\* the SQS batch limit written in publishBatches
SqsBatchLimit == 10

\* n requests, the i-th carrying the items of the i-th chunk
PublishRequests(n) ==
  {[i \in 1..n |-> [batchId |-> b[i], items |-> <<OptionId(i)>>]] :
     b \in [1..n -> {"batch_1", "batch_2"}]}

\* the body of the message of a request (its timestamp left out)
createSQSMessageBody(request) ==
  [batchId |-> request.batchId, items |-> request.items, retryCount |-> 0]

\* the entries publishBatchChunk builds, index counting from 0
Entries(requests) ==
  [n \in 1..Len(requests) |->
     [Id |-> requests[n].batchId \o "-" \o ToString(n - 1),
      MessageBody |-> createSQSMessageBody(requests[n]),
      MessageGroupId |-> requests[n].batchId,
      MessageDeduplicationId |-> requests[n].batchId]]

RECURSIVE Enqueue(_, _)
\* a FIFO queue accepting entries in order: an entry whose
\* MessageDeduplicationId the queue has seen within the deduplication
\* interval is accepted and not delivered
Enqueue(queue, entries) ==
  IF entries = <<>> THEN queue
  ELSE LET entry == Head(entries)
           after == IF entry.MessageDeduplicationId \in queue.seen THEN queue
                    ELSE [delivered |-> Append(queue.delivered, entry.MessageBody),
                          seen |-> queue.seen \cup {entry.MessageDeduplicationId}]
       IN Enqueue(after, Tail(entries))

InitPublishing ==
  /\ pc = "idle"
  /\ store = <<>>
  /\ catalog = <<>>
  /\ calls = <<>>
  /\ outcomes = <<>>
  /\ csvRows = <<>>
  /\ items = <<>>
  /\ batches = <<>>
  /\ k = 0
  /\ processedItems = 0
  /\ failedItems = 0
  /\ errors = <<>>
  /\ promises = <<>>
  /\ caught = ""
  /\ raised = ""
  /\ result = <<>>
  /\ attempt = 1
  /\ frames = <<>>
  /\ aggregates = <<>>
  /\ \E n \in 0..MaxRequests :
       \E requests \in PublishRequests(n) :
         pure = [stage |-> "requests", requests |-> requests]

\* the loop of publishBatches reaches chunk j: it is sent, or the call returns
PublishFrom(j, chunks, commands, queue, messageIds) ==
  [stage |-> IF j <= Len(chunks) THEN "sending" ELSE "published",
   requests |-> pure.requests,
   chunks |-> chunks,
   k |-> j,
   commands |-> IF j <= Len(chunks) THEN Append(commands, Entries(chunks[j])) ELSE commands,
   queue |-> queue,
   messageIds |-> messageIds]

\* publishBatches(requests) is called
PublishBatches ==
  /\ pure.stage = "requests"
  /\ pure' = PublishFrom(1, ChunkFrom(pure.requests, SqsBatchLimit, 0), <<>>,
                         [delivered |-> <<>>, seen |-> {}], <<>>)
  /\ UNCHANGED programVars

\* sqsClient.send resolves with every entry Successful
SendResolves ==
  /\ pure.stage = "sending"
  /\ LET entries == pure.commands[pure.k]
     IN pure' = PublishFrom(pure.k + 1, pure.chunks, pure.commands,
                            Enqueue(pure.queue, entries),
                            pure.messageIds \o [n \in 1..Len(entries) |-> "msg-" \o entries[n].Id])
  /\ UNCHANGED programVars

\* sqsClient.send rejects: publishBatches rethrows and sends nothing more
SendRejects ==
  /\ pure.stage = "sending"
  /\ pure' = [pure EXCEPT !.stage = "publishFailed"]
  /\ UNCHANGED programVars

NextPublishing ==
  \/ PublishBatches
  \/ SendResolves
  \/ SendRejects

SpecPublishing == InitPublishing /\ [][NextPublishing]_vars

(***************************************************************************)
(* The processing Lambda handler: every record of the SQS event is parsed  *)
(* and handed to the (mock) batch processing; the invocation awaits        *)
(* Promise.all of the records' promises                                    *)
(***************************************************************************)
\* JSON values as the handler meets them are records of their type and
\* content; a missing property reads as undefined
JsonString(s) == [type |-> "string", string |-> s]

\* !v is false
Truthy(v) ==
  CASE v.type = "undefined" -> FALSE
    [] v.type = "string"    -> v.string # ""
    [] v.type = "number"    -> v.number # 0
    [] OTHER                -> TRUE

\* Array.isArray(v)
IsArray(v) == v.type = "array"

\* new DomainError(message, code, details), its details left out
DomainError(message, code) == [name |-> "DomainError", code |-> code, message |-> message]

\* what JSON.parse and a property read of null throw
SyntaxError == [name |-> "SyntaxError", code |-> "none", message |-> "Unexpected token"]

TypeError ==
  [name |-> "TypeError", code |-> "none", message |-> "Cannot read properties of null"]

NoError == [name |-> "none", code |-> "none", message |-> ""]

\* mutant: the items of the body are not looked at
parseSQSBatchMessage_ItemsUnchecked(record) ==
  LET body == record.body
  IN IF body.json = "malformed" THEN [threw |-> TRUE, error |-> SyntaxError]
     ELSE IF body.json = "null" THEN [threw |-> TRUE, error |-> TypeError]
     ELSE IF ~Truthy(body.batchId)
       THEN [threw |-> TRUE,
             error |-> DomainError("Invalid SQS message format: missing batchId or items array",
                                   "INVALID_SQS_MESSAGE")]
       ELSE [threw |-> FALSE,
             message |-> [messageId |-> record.messageId,
                          batchId |-> body.batchId,
                          items |-> body.items,
                          retryCount |-> IF body.retryCount.type = "number"
                                           THEN body.retryCount.number ELSE 0]]

\* parseSQSBatchMessage(record): the message, or what it throws
parseSQSBatchMessage(record) ==
  LET body == record.body
  IN IF body.json = "malformed" THEN [threw |-> TRUE, error |-> SyntaxError]
     ELSE IF body.json = "null" THEN [threw |-> TRUE, error |-> TypeError]
     ELSE IF ~Truthy(body.batchId) \/ ~IsArray(body.items)
       THEN [threw |-> TRUE,
             error |-> DomainError("Invalid SQS message format: missing batchId or items array",
                                   "INVALID_SQS_MESSAGE")]
       ELSE [threw |-> FALSE,
             message |-> [messageId |-> record.messageId,
                          batchId |-> body.batchId,
                          items |-> body.items,
                          retryCount |-> IF body.retryCount.type = "number"
                                           THEN body.retryCount.number ELSE 0]]

\* processSingleBatchMessage(record) up to its first await: rejected by the
\* parser, or waiting for the timer of mockBatchProcessing
processSingleBatchMessage(record) ==
  LET parsed == parseSQSBatchMessage(record)
  IN IF parsed.threw
       THEN [state |-> "rejected", error |-> parsed.error]
       ELSE [state |-> "pending", error |-> NoError, message |-> parsed.message]

\* Promise.all over the records' promises: rejected with the first
\* rejection, fulfilled when all are, pending otherwise
PromiseAll(settled) ==
  LET rejected == {n \in 1..Len(settled) : settled[n].state = "rejected"}
  IN IF rejected # {}
       THEN [state |-> "rejected",
             error |-> settled[CHOOSE n \in rejected : \A m \in rejected : n <= m].error]
     ELSE IF \A n \in 1..Len(settled) : settled[n].state = "fulfilled"
       THEN [state |-> "resolved", error |-> NoError]
     ELSE [state |-> "pending", error |-> NoError]

InitHandler ==
  /\ pc = "idle"
  /\ store = <<>>
  /\ catalog = <<>>
  /\ calls = <<>>
  /\ outcomes = <<>>
  /\ csvRows = <<>>
  /\ items = <<>>
  /\ batches = <<>>
  /\ k = 0
  /\ processedItems = 0
  /\ failedItems = 0
  /\ errors = <<>>
  /\ promises = <<>>
  /\ caught = ""
  /\ raised = ""
  /\ result = <<>>
  /\ attempt = 1
  /\ frames = <<>>
  /\ aggregates = <<>>
  \* record bodies: text that is not JSON, the JSON text null, and JSON
  \* objects whose batchId, items and retryCount are absent, well-typed or ill-typed
  /\ \E n \in 0..MaxSqsRecords :
       \E bodies \in
            [1..n ->
               {[json |-> "malformed"], [json |-> "null"]}
                 \cup {[json |-> "object", batchId |-> b, items |-> i, retryCount |-> r] :
                         b \in {[type |-> "undefined"], JsonString(""), JsonString(BatchId)},
                         i \in {[type |-> "undefined"],
                                [type |-> "array", array |-> <<OptionId(1)>>],
                                JsonString("none")},
                         r \in {[type |-> "undefined"], [type |-> "number", number |-> 2],
                                JsonString("2")}}] :
         pure = [stage |-> "event",
                 event |-> [m \in 1..n |-> [messageId |-> "m" \o ToString(m),
                                            body |-> bodies[m]]]]

\* processingLambdaHandlerInternal(event): every record is mapped to its
\* promise, then Promise.all is awaited
ProcessingLambdaHandlerInternal ==
  /\ pure.stage = "event"
  /\ LET settled == [n \in 1..Len(pure.event) |-> processSingleBatchMessage(pure.event[n])]
     IN pure' = [stage |-> "invoked", event |-> pure.event, settled |-> settled,
                 invocation |-> PromiseAll(settled)]
  /\ UNCHANGED programVars

\* the timer of mockBatchProcessing fires for record n, whose promise
\* fulfils; the invocation may have rejected already
MockBatchProcessingResolves(n) ==
  /\ pure.stage = "invoked"
  /\ n \in 1..Len(pure.settled)
  /\ pure.settled[n].state = "pending"
  /\ LET settled == [pure.settled EXCEPT ![n].state = "fulfilled"]
     IN pure' = [pure EXCEPT !.settled = settled, !.invocation = PromiseAll(settled)]
  /\ UNCHANGED programVars

NextHandler ==
  \/ ProcessingLambdaHandlerInternal
  \/ \E n \in 1..MaxSqsRecords : MockBatchProcessingResolves(n)

SpecHandler == InitHandler /\ [][NextHandler]_vars

(***************************************************************************)
(* Two processSingleBatch calls running concurrently against one catalog:  *)
(* the same chunk delivered twice, or two chunks sharing a federatedId.    *)
(* frames[r] is the frame of reconciliation r; its calls carry chunk r.    *)
(***************************************************************************)
InitConcurrent ==
  /\ pc = "idle"
  /\ store = <<>>
  /\ catalog \in InitialCatalogs
  /\ calls = <<>>
  /\ outcomes = <<>>
  /\ csvRows = <<>>
  /\ items = <<>>
  /\ batches = <<>>
  /\ k = 0
  /\ processedItems = 0
  /\ failedItems = 0
  /\ errors = <<>>
  /\ promises = <<>>
  /\ caught = ""
  /\ raised = ""
  /\ result = <<>>
  /\ attempt = 1
  /\ aggregates = <<>>
  /\ pure = [stage |-> "none"]
  \* the chunks are the items of a few CSV rows and share a federatedId
  /\ \E c, d \in {ensureFamilyItemsExist(transformCsvRowsToItems(RowsOf(p, n)), RowsOf(p, n)) :
                     p \in RowPatterns, n \in 1..MaxSharedRows} :
       /\ Range(FederatedIdsOf(c)) \cap Range(FederatedIdsOf(d)) # {}
       /\ frames = <<[pc |-> "called", chunk |-> c, promises |-> <<>>, thrown |-> ""],
                     [pc |-> "called", chunk |-> d, promises |-> <<>>, thrown |-> ""]>>

concurrentVars == <<pc, store, csvRows, items, batches, k, processedItems, failedItems,
                    errors, promises, caught, raised, result, attempt, aggregates, pure>>

\* processSingleBatch(chunk) is entered by reconciliation r: the size check,
\* then the lookup is issued
ProcessSingleBatch(r) ==
  /\ frames[r].pc = "called"
  /\ IF Len(frames[r].chunk) > MAX_BATCH_SIZE
       THEN /\ frames' = [frames EXCEPT ![r].pc = "threw",
                                        ![r].thrown = SizeMessage(Len(frames[r].chunk))]
            /\ UNCHANGED <<calls, outcomes>>
       ELSE /\ calls' = Append(calls, [op |-> "lookupItemsByFederatedIds", chunk |-> r,
                                       federatedIds |-> FederatedIdsOf(frames[r].chunk)])
            /\ outcomes' = Append(outcomes, "pending")
            /\ frames' = [frames EXCEPT ![r].pc = "awaitLookup"]
  /\ UNCHANGED <<catalog, concurrentVars>>

\* the pending lookup of reconciliation r
LookupOf(r) ==
  CHOOSE i \in 1..Len(calls) :
    calls[i].op = "lookupItemsByFederatedIds" /\ calls[i].chunk = r

\* the lookup of r resolves with the catalog's content of this moment; the
\* chunk is partitioned and create and update are issued
ConcurrentLookupResolves(r) ==
  /\ frames[r].pc = "awaitLookup"
  /\ LET i == LookupOf(r)
         existingItems == LookupResult(catalog, calls[i].federatedIds)
         issued == WriteCalls(frames[r].chunk, r, existingItems)
     IN /\ calls' = calls \o issued
        /\ outcomes' = Settle(outcomes, i, "ok") \o [n \in 1..Len(issued) |-> "pending"]
        /\ frames' = [frames EXCEPT
                        ![r].pc = IF issued = <<>> THEN "returned" ELSE "awaitAll",
                        ![r].promises = [n \in 1..Len(issued) |-> Len(calls) + n]]
  /\ UNCHANGED <<catalog, concurrentVars>>

\* the lookup of r rejects: processSingleBatch throws
ConcurrentLookupRejects(r) ==
  /\ frames[r].pc = "awaitLookup"
  /\ outcomes' = Settle(outcomes, LookupOf(r), LookupError)
  /\ frames' = [frames EXCEPT ![r].pc = "threw", ![r].thrown = LookupError]
  /\ UNCHANGED <<catalog, calls, concurrentVars>>

\* a create or update call of r fulfils: Promise.all fulfils when it was the
\* last one and r has not thrown already
ConcurrentFulfil(r, i) ==
  LET outs == Settle(outcomes, i, "ok")
  IN /\ outcomes' = outs
     /\ frames' = IF frames[r].pc = "awaitAll"
                     /\ \A j \in Range(frames[r].promises) : outs[j] = "ok"
                    THEN [frames EXCEPT ![r].pc = "returned"]
                    ELSE frames

\* a create or update call of r rejects: Promise.all rejects with the first rejection
ConcurrentReject(r, i, message) ==
  /\ outcomes' = Settle(outcomes, i, message)
  /\ frames' = IF frames[r].pc = "awaitAll"
                 THEN [frames EXCEPT ![r].pc = "threw", ![r].thrown = message]
                 ELSE frames

ConcurrentCreateResolves(r) ==
  \E i \in 1..Len(calls) :
    /\ Pending(i, "createItemsBatch")
    /\ calls[i].chunk = r
    /\ catalog' = CatalogAfterCreate(catalog, calls[i].items)
    /\ ConcurrentFulfil(r, i)
    /\ UNCHANGED <<calls, concurrentVars>>

ConcurrentCreateRejects(r) ==
  \E i \in 1..Len(calls) :
    /\ Pending(i, "createItemsBatch")
    /\ calls[i].chunk = r
    /\ ConcurrentReject(r, i, CreateError)
    /\ UNCHANGED <<catalog, calls, concurrentVars>>

ConcurrentUpdateResolves(r) ==
  \E i \in 1..Len(calls) :
    /\ Pending(i, "updateItemsBatch")
    /\ calls[i].chunk = r
    /\ ConcurrentFulfil(r, i)
    /\ UNCHANGED <<catalog, calls, concurrentVars>>

ConcurrentUpdateRejects(r) ==
  \E i \in 1..Len(calls) :
    /\ Pending(i, "updateItemsBatch")
    /\ calls[i].chunk = r
    /\ ConcurrentReject(r, i, UpdateItemsError)
    /\ UNCHANGED <<catalog, calls, concurrentVars>>

NextConcurrent ==
  \E r \in {1, 2} :
    \/ ProcessSingleBatch(r)
    \/ ConcurrentLookupResolves(r)
    \/ ConcurrentLookupRejects(r)
    \/ ConcurrentCreateResolves(r)
    \/ ConcurrentCreateRejects(r)
    \/ ConcurrentUpdateResolves(r)
    \/ ConcurrentUpdateRejects(r)

SpecConcurrent == InitConcurrent /\ [][NextConcurrent]_vars

(***************************************************************************)
(* Vocabulary of the properties                                            *)
(***************************************************************************)
\* the terminal values of BatchStatus
TerminalStatuses == {"completed", "failed", "partial"}

CatalogOps == {"lookupItemsByFederatedIds", "createItemsBatch", "updateItemsBatch"}

\* indices of the calls of the given operations
CallsOf(ops) == {i \in 1..Len(calls) : calls[i].op \in ops}

\* indices of the updateBatch calls that carry a terminal status
TerminalUpdateCalls ==
  {i \in CallsOf({"updateBatch"}) : calls[i].updates.status \in TerminalStatuses}

\* indices of the final updateBatch call of processItemsInBatches (it is the
\* only one that carries the counters)
FinalUpdateCalls ==
  {i \in CallsOf({"updateBatch"}) : "processedItems" \in DOMAIN calls[i].updates}

\* all chunks have been reconciled: the loop is over
AllChunksReconciled == FinalUpdateCalls # {}

\* calls[i] was rejected
Rejected(i) == outcomes[i] \notin {"pending", "ok"}

\* indices of the catalog calls issued for chunk j
ChunkCalls(j) == {i \in CallsOf(CatalogOps) : calls[i].chunk = j}

\* chunk j was counted as failed: one of its calls was rejected while awaited
ChunkHasFailed(j) == \E i \in ChunkCalls(j) : Rejected(i)

\* the chunks the loop is through with
SettledChunks == IF batches = <<>> THEN {} ELSE 1..(k - 1)

RECURSIVE SumLen(_, _)
\* total length of the chunks of batches whose index is in the set js
SumLen(bs, js) ==
  IF js = {} THEN 0
  ELSE LET j == CHOOSE x \in js : TRUE
       IN Len(bs[j]) + SumLen(bs, js \ {j})

(***************************************************************************)
(* C1: at all times the persisted batch record has                         *)
(* processedItems + failedItems <= totalItems, and                         *)
(* processedItems + failedItems = totalItems once its status is terminal.  *)
(* The code breaks it when the final updateBatch rejects: the catch block  *)
(* then marks the record failed while its counters are still 0.            *)
(***************************************************************************)
C1_CountsWithinTotal ==
  \A id \in DOMAIN store :
    /\ store[id].processedItems + store[id].failedItems <= store[id].totalItems
    /\ store[id].status \in TerminalStatuses
         => store[id].processedItems + store[id].failedItems = store[id].totalItems

(***************************************************************************)
(* C2: the status of the final update is completed iff failedItems = 0,    *)
(* failed iff processedItems = 0 and failedItems > 0, partial iff both     *)
(* counts are positive; no items gives completed; the status persisted and *)
(* returned is that status.                                                *)
(***************************************************************************)
C2_FinalStatusRule ==
  \A i \in FinalUpdateCalls :
    LET u == calls[i].updates
    IN /\ u.status \in TerminalStatuses
       /\ u.status = "completed" <=> u.failedItems = 0
       /\ u.status = "failed" <=> (u.processedItems = 0 /\ u.failedItems > 0)
       /\ u.status = "partial" <=> (u.processedItems > 0 /\ u.failedItems > 0)
       /\ items = <<>> => u.status = "completed"
       /\ result # <<>> => /\ result.status = u.status
                           /\ store[BatchId].status = u.status

C2_Witness ==
  /\ result # <<>>
  /\ result.status = "partial"
  /\ result.processedItems > 0
  /\ result.failedItems > 0

(***************************************************************************)
(* C3 as stated: a persisted status failed always comes with               *)
(* processedItems = 0 and failedItems >= 1, also on the catch path.        *)
(***************************************************************************)
C3_FailedHasFailure ==
  \A id \in DOMAIN store :
    store[id].status = "failed"
      => store[id].processedItems = 0 /\ store[id].failedItems >= 1

(***************************************************************************)
(* C3 amended: a persisted status failed always comes with                 *)
(* processedItems = 0; it comes with failedItems >= 1 (one error per       *)
(* failed item) when the final update wrote it, and with failedItems = 0   *)
(* and the single "batch" error when the catch block wrote it.             *)
(***************************************************************************)
C3_FailedShape ==
  \A id \in DOMAIN store :
    store[id].status = "failed"
      => /\ store[id].processedItems = 0
         /\ IF caught = ""
              THEN /\ store[id].failedItems >= 1
                   /\ Len(store[id].errors) = store[id].failedItems
              ELSE /\ store[id].failedItems = 0
                   /\ store[id].errors =
                        <<[itemFederatedId |-> "batch", error |-> caught]>>

C3_Witness ==
  /\ BatchId \in DOMAIN store
  /\ store[BatchId].status = "failed"
  /\ store[BatchId].totalItems > 0
  /\ caught = StoreUpdateError

(***************************************************************************)
(* C4: partial-failure isolation. While the loop runs, the lookup has been *)
(* issued for exactly the chunks up to the current one, whatever failed    *)
(* before; when the loop is over the lookup of every chunk has been        *)
(* issued.                                                                 *)
(***************************************************************************)
C4_LookupIssued(j) ==
  \E i \in ChunkCalls(j) : calls[i].op = "lookupItemsByFederatedIds"

C4_FailureIsolation ==
  /\ pc \in {"awaitLookup", "awaitAll"}
       => /\ k \in 1..Len(batches)
          /\ \A j \in 1..Len(batches) : C4_LookupIssued(j) <=> j <= k
  /\ AllChunksReconciled
       => /\ k = Len(batches) + 1
          /\ \A j \in 1..Len(batches) : C4_LookupIssued(j)

C4_Witness ==
  /\ AllChunksReconciled
  /\ Len(batches) = 3
  /\ ChunkHasFailed(1)
  /\ C4_LookupIssued(2)
  /\ C4_LookupIssued(3)

(***************************************************************************)
(* C5: chunk accounting. Every chunk the loop is through with is counted   *)
(* whole: in failedItems, with one BatchError per item carrying the item's *)
(* federatedId and one and the same rejection message, when one of its     *)
(* calls was rejected; in processedItems, with no error, otherwise. The    *)
(* final update carries these counts, they add up to the number of items,  *)
(* and the error list has failedItems entries.                             *)
(***************************************************************************)
C5_FailedChunks == {j \in SettledChunks : ChunkHasFailed(j)}

C5_ErrorsOfChunk(j) ==
  LET offset == SumLen(batches, {i \in C5_FailedChunks : i < j})
  IN SubSeq(errors, offset + 1, offset + Len(batches[j]))

C5_ChunkAccounting ==
  /\ failedItems = SumLen(batches, C5_FailedChunks)
  /\ processedItems = SumLen(batches, SettledChunks \ C5_FailedChunks)
  /\ Len(errors) = failedItems
  /\ \A j \in C5_FailedChunks :
       \E i \in ChunkCalls(j) :
         /\ Rejected(i)
         /\ C5_ErrorsOfChunk(j) =
              [n \in 1..Len(batches[j]) |->
                 [itemFederatedId |-> batches[j][n].federatedId,
                  error |-> outcomes[i]]]
  /\ \A i \in FinalUpdateCalls :
       /\ calls[i].updates.processedItems = processedItems
       /\ calls[i].updates.failedItems = failedItems
       /\ calls[i].updates.errors = errors
       /\ processedItems + failedItems = Len(items)

\* two chunks of 100 and 50 items, only the create of the second one fails
C5_Witness ==
  /\ result # <<>>
  /\ Len(batches) = 2
  /\ Len(batches[1]) = MAX_BATCH_SIZE
  /\ Len(batches[2]) > 1
  /\ \E i \in ChunkCalls(2) :
       calls[i].op = "createItemsBatch" /\ outcomes[i] = CreateError
  /\ result.processedItems = Len(batches[1])
  /\ result.failedItems = Len(batches[2])
  /\ result.status = "partial"
  /\ Len(result.errors) = Len(batches[2])

(***************************************************************************)
(* C6 as stated: the persisted status only moves pending -> processing ->  *)
(* {completed, failed, partial}: a record is created pending, a terminal   *)
(* status is reached from processing only, and a terminal status never     *)
(* changes.                                                                *)
(***************************************************************************)
C6_StatusMoves(allowed) ==
  /\ \A id \in DOMAIN store' \ DOMAIN store : store'[id].status = "pending"
  /\ \A id \in DOMAIN store :
       /\ id \in DOMAIN store'
       /\ \/ store'[id].status = store[id].status
          \/ <<store[id].status, store'[id].status>> \in allowed

C6_SpecMoves ==
  {<<"pending", "processing">>} \cup ({"processing"} \X TerminalStatuses)

C6_TerminalOnlyFromProcessing == [][C6_StatusMoves(C6_SpecMoves)]_vars

(***************************************************************************)
(* C6 amended: the persisted status only moves pending -> processing,      *)
(* processing -> {completed, failed, partial} and, on the catch path       *)
(* before the processing update, pending -> failed; a terminal status      *)
(* never changes.                                                          *)
(***************************************************************************)
C6_StatusMachine ==
  [][C6_StatusMoves(C6_SpecMoves \cup {<<"pending", "failed">>})]_vars

C6_Witness ==
  /\ BatchId \in DOMAIN store
  /\ store[BatchId].status = "failed"
  /\ store[BatchId].totalItems = 0
  /\ caught = ParseError
  /\ pc = "done"

(***************************************************************************)
(* C7: once all chunks are reconciled the status store receives exactly    *)
(* one update call that carries a terminal status, also when an update     *)
(* call fails. The code issues a second one (status failed, from the catch *)
(* block) when the final update rejects.                                   *)
(***************************************************************************)
C7_OneTerminalUpdate ==
  AllChunksReconciled => Cardinality(TerminalUpdateCalls) = 1

(***************************************************************************)
(* C8: when the parser fails, no catalog call is ever made; the catch      *)
(* block issues updateBatch with status failed and exactly one error       *)
(* {itemFederatedId: "batch", error: <parse message>}; when that update    *)
(* has succeeded the record is failed with that error list and             *)
(* processBatch raises the parse error (it returns no result).             *)
(***************************************************************************)
C8_ParseFailed ==
  /\ Len(calls) >= 2
  /\ calls[2].op = "parseCsvContent"
  /\ Rejected(2)

C8_ParseFailure ==
  C8_ParseFailed
    => /\ CallsOf(CatalogOps) = {}
       /\ Len(calls) = 3
       /\ calls[3].op = "updateBatch"
       /\ calls[3].batchId = BatchId
       /\ calls[3].updates.status = "failed"
       /\ calls[3].updates.errors =
            <<[itemFederatedId |-> "batch", error |-> outcomes[2]]>>
       /\ result = <<>>
       /\ outcomes[3] = "ok"
            => /\ store[BatchId].status = "failed"
               /\ store[BatchId].errors = calls[3].updates.errors
               /\ pc = "done"
               /\ raised = outcomes[2]

C8_Witness ==
  /\ C8_ParseFailed
  /\ outcomes[3] = "ok"
  /\ raised = ParseError

(***************************************************************************)
(* C9: on a batch-fatal error (initial save or parse failure) processBatch *)
(* raises that original error whether the updateBatch of the catch block   *)
(* succeeds or fails. In the code a rejection of that updateBatch leaves   *)
(* processBatch instead of the original error.                             *)
(***************************************************************************)
C9_RaisesOriginalError ==
  (pc = "done" /\ caught \in {SaveError, ParseError}) => raised = caught

(***************************************************************************)
(* C10: the first collaborator call is saveBatch of a pending record with  *)
(* all counts 0 and no errors; the parser and the catalog are called only  *)
(* after that save has succeeded; if the save fails no parser or catalog   *)
(* call is ever made and processBatch ends by raising.                     *)
(***************************************************************************)
C10_InitialSaveFirst ==
  calls # <<>>
    => /\ calls[1].op = "saveBatch"
       /\ calls[1].batch.status = "pending"
       /\ calls[1].batch.totalItems = 0
       /\ calls[1].batch.processedItems = 0
       /\ calls[1].batch.failedItems = 0
       /\ calls[1].batch.errors = <<>>
       /\ CallsOf({"saveBatch"}) = {1}
       /\ CallsOf(CatalogOps \cup {"parseCsvContent"}) # {} => outcomes[1] = "ok"
       /\ Rejected(1)
            => /\ CallsOf(CatalogOps \cup {"parseCsvContent"}) = {}
               /\ result = <<>>
               /\ pc = "done" => raised # ""

C10_Witness ==
  /\ calls # <<>>
  /\ Rejected(1)
  /\ pc = "done"
  /\ raised = SaveError

(***************************************************************************)
(* C11: before the first catalog call the status store has been updated    *)
(* with status processing and totalItems = number of rows + number of      *)
(* synthesized families (the length of the item set), and that update has  *)
(* succeeded; if it fails no catalog call is ever made.                    *)
(***************************************************************************)
\* families referenced by an option row and declared by no family row
C11_MissingFamilies ==
  {csvRows[i].familyFederatedId :
     i \in {n \in 1..Len(csvRows) : "optionFederatedId" \in DOMAIN csvRows[n]}}
  \ {csvRows[i].familyFederatedId :
       i \in {n \in 1..Len(csvRows) : "optionFederatedId" \notin DOMAIN csvRows[n]}}

\* calls[3] is the update that follows a successful parse
C11_ProcessingUpdateIssued ==
  /\ Len(calls) >= 3
  /\ outcomes[2] = "ok"

C11_ProcessingBeforeCatalog ==
  /\ C11_ProcessingUpdateIssued
       => /\ calls[3].op = "updateBatch"
          /\ calls[3].batchId = BatchId
          /\ calls[3].updates.status = "processing"
          /\ calls[3].updates.totalItems =
               Len(csvRows) + Cardinality(C11_MissingFamilies)
          /\ calls[3].updates.totalItems = Len(items)
          /\ Rejected(3) => CallsOf(CatalogOps) = {}
  /\ CallsOf(CatalogOps) # {}
       => /\ C11_ProcessingUpdateIssued
          /\ outcomes[3] = "ok"
          /\ \A i \in CallsOf(CatalogOps) : i > 3
          /\ store[BatchId].totalItems = Len(items)
          /\ store[BatchId].status # "pending"

C11_Witness ==
  /\ CallsOf(CatalogOps) # {}
  /\ pc = "awaitLookup"
  /\ k = 1
  /\ store[BatchId].status = "processing"
  /\ Cardinality(C11_MissingFamilies) = 3
  /\ store[BatchId].totalItems = MaxRows + 3

(***************************************************************************)
(* C12 as stated: when the lookup of a chunk resolves, every item of the   *)
(* chunk goes to exactly one of the two calls: to update, paired with the  *)
(* internal id the lookup returned, iff the lookup result contains its     *)
(* federatedId (whatever the internal id), to create otherwise; create is  *)
(* issued iff some item goes to create, update iff some item goes to       *)
(* update.                                                                 *)
(***************************************************************************)
\* the calls issued by the step
C12_NewCalls == SubSeq(calls', Len(calls) + 1, Len(calls'))

C12_NewItemsOf(op) ==
  {c.items : c \in {d \in Range(C12_NewCalls) : d.op = op}}

\* the item as the update call carries it
C12_WithId(item, id) ==
  [name |-> item.name, description |-> item.description,
   federatedId |-> item.federatedId, roles |-> item.roles, id |-> id]

\* number of positions of the sequence that hold the value
C12_Count(seq, value) == Cardinality({n \in 1..Len(seq) : seq[n] = value})

\* the step partitions the chunk; Found(item) says which items the lookup found
C12_Partitioned(chunk, Found(_)) ==
  LET toUpdate == {n \in 1..Len(chunk) : Found(chunk[n])}
      toCreate == {n \in 1..Len(chunk) : ~Found(chunk[n])}
  IN /\ \A c \in Range(C12_NewCalls) : c.op \in {"createItemsBatch", "updateItemsBatch"}
     /\ Cardinality(C12_NewItemsOf("createItemsBatch")) = IF toCreate = {} THEN 0 ELSE 1
     /\ Cardinality(C12_NewItemsOf("updateItemsBatch")) = IF toUpdate = {} THEN 0 ELSE 1
     /\ Len(C12_NewCalls) = (IF toCreate = {} THEN 0 ELSE 1) + (IF toUpdate = {} THEN 0 ELSE 1)
     /\ \A sent \in C12_NewItemsOf("createItemsBatch") :
          /\ Len(sent) = Cardinality(toCreate)
          /\ \A n \in toCreate :
               C12_Count(sent, chunk[n]) =
                 Cardinality({m \in toCreate : chunk[m] = chunk[n]})
     /\ \A sent \in C12_NewItemsOf("updateItemsBatch") :
          /\ Len(sent) = Cardinality(toUpdate)
          /\ \A n \in toUpdate :
               C12_Count(sent, C12_WithId(chunk[n], catalog[chunk[n].federatedId])) =
                 Cardinality({m \in toUpdate : chunk[m] = chunk[n]})

\* the step is the resolution of the lookup of chunk k
C12_LookupResolved ==
  /\ pc = "awaitLookup"
  /\ outcomes'[Len(calls)] = "ok"

C12_FoundAnyId(item) == item.federatedId \in DOMAIN catalog

C12_FoundNonEmptyId(item) ==
  /\ item.federatedId \in DOMAIN catalog
  /\ catalog[item.federatedId] # ""

C13_IdsSentTo(op) ==
  {c.items[n].federatedId :
     <<c, n>> \in {<<d, m>> \in Range(C12_NewCalls) \X (1..MAX_BATCH_SIZE) :
                     d.op = op /\ m <= Len(d.items)}}

C13_ChunkIds == {batches[k][n].federatedId : n \in 1..Len(batches[k])}

C13_RerunRoutesExistingToUpdate ==
  [][C12_LookupResolved
       => /\ C13_IdsSentTo("createItemsBatch") \cap DOMAIN catalog = {}
          /\ C13_IdsSentTo("createItemsBatch") = C13_ChunkIds \ DOMAIN catalog
          /\ C13_IdsSentTo("updateItemsBatch") = C13_ChunkIds \cap DOMAIN catalog]_vars

\* second attempt: the chunk the first attempt created is sent to update as a
\* whole, a chunk whose create failed the first time is sent to create
C13_Witness ==
  /\ attempt = 2
  /\ \E i \in CallsOf({"updateItemsBatch"}) :
       /\ calls[i].chunk = 1
       /\ Len(calls[i].items) = MAX_BATCH_SIZE
  /\ \E i \in CallsOf({"createItemsBatch"}) :
       /\ calls[i].chunk = 2
       /\ outcomes[i] = "ok"

(***************************************************************************)
(* C14: within one processBatch invocation the lookup is called exactly    *)
(* once for every chunk the loop has reached, with exactly that chunk's    *)
(* federatedIds in order, and create and update are each called at most    *)
(* once per chunk: no catalog call is repeated after a failure.            *)
(***************************************************************************)
C14_ChunkCallsOf(j, op) == {i \in ChunkCalls(j) : calls[i].op = op}

C14_NoRetry ==
  /\ \A i \in CallsOf(CatalogOps) : calls[i].chunk \in 1..Len(batches)
  /\ \A j \in 1..Len(batches) :
       /\ Cardinality(C14_ChunkCallsOf(j, "lookupItemsByFederatedIds")) =
            IF j <= k THEN 1 ELSE 0
       /\ \A i \in C14_ChunkCallsOf(j, "lookupItemsByFederatedIds") :
            calls[i].federatedIds =
              [n \in 1..Len(batches[j]) |-> batches[j][n].federatedId]
       /\ Cardinality(C14_ChunkCallsOf(j, "createItemsBatch")) <= 1
       /\ Cardinality(C14_ChunkCallsOf(j, "updateItemsBatch")) <= 1

C14_Witness ==
  /\ AllChunksReconciled
  /\ Len(batches) = 3
  /\ \E i \in C14_ChunkCallsOf(1, "lookupItemsByFederatedIds") : Rejected(i)
  /\ \E i \in C14_ChunkCallsOf(2, "createItemsBatch") : Rejected(i)
  /\ C14_ChunkCallsOf(3, "lookupItemsByFederatedIds") # {}

(***************************************************************************)
(* C16: chunk-level errors never escape. The catch block of processBatch   *)
(* is entered only after a rejection of saveBatch, parseCsvContent or      *)
(* updateBatch; when none of these calls is rejected, processBatch ends    *)
(* by returning a result and raises nothing, whatever lookup, create and   *)
(* update calls were rejected.                                             *)
(***************************************************************************)
C16_FatalCalls == CallsOf({"saveBatch", "parseCsvContent", "updateBatch"})

C16_ChunkErrorsContained ==
  /\ (caught # "" \/ raised # "") => \E i \in C16_FatalCalls : Rejected(i)
  /\ (pc = "done" /\ \A i \in C16_FatalCalls : outcomes[i] = "ok")
       => /\ result # <<>>
          /\ raised = ""
          /\ caught = ""

C16_Witness ==
  /\ pc = "done"
  /\ result # <<>>
  /\ raised = ""
  /\ \E i \in CallsOf({"lookupItemsByFederatedIds"}) : Rejected(i)
  /\ \E i \in CallsOf({"createItemsBatch"}) : Rejected(i)
  /\ \E i \in CallsOf({"updateItemsBatch"}) : Rejected(i)

(***************************************************************************)
(* C15: chunkArray(items, limit) returns contiguous slices whose           *)
(* concatenation in order is the given sequence; every chunk has between 1 *)
(* and limit items and only the last one may have fewer than limit; an     *)
(* empty sequence yields no chunk.                                         *)
(***************************************************************************)
C15_Chunking ==
  pure.stage = "chunked"
    => LET array == pure.array
           limit == pure.chunkSize
           chunks == pure.chunks
           n == Len(chunks)
       IN /\ array = <<>> <=> chunks = <<>>
          /\ \A c \in 1..n :
               /\ Len(chunks[c]) \in 1..limit
               /\ c < n => Len(chunks[c]) = limit
               /\ \A j \in 1..Len(chunks[c]) :
                    chunks[c][j] = array[(c - 1) * limit + j]
          /\ n > 0 => (n - 1) * limit + Len(chunks[n]) = Len(array)

\* a sequence that does not divide evenly: several full chunks and a shorter last one
C15_Witness ==
  /\ pure.stage = "chunked"
  /\ Len(pure.chunks) = 3
  /\ pure.chunkSize = 2
  /\ Len(pure.chunks[3]) = 1

(***************************************************************************)
(* C17: ensureFamilyItemsExist is idempotent on its own output: a second   *)
(* call with the same rows adds no item. The code derives the missing      *)
(* families from the rows alone, so the second call appends them again.    *)
(***************************************************************************)
C17_EnsureIdempotent ==
  pure.stage = "ensuredTwice" => pure.again = pure.ensured

(***************************************************************************)
(* C18 as stated: in ensureFamilyItemsExist(transformCsvRowsToItems(rows), *)
(* rows) every familyFederatedId referenced by an option row is the        *)
(* federatedId of exactly one family-role item.                            *)
(***************************************************************************)
C18_OptionRows(rows) == {i \in 1..Len(rows) : "optionFederatedId" \in DOMAIN rows[i]}

C18_FamilyRows(rows) == {i \in 1..Len(rows) : "optionFederatedId" \notin DOMAIN rows[i]}

\* positions of the family-role items with the given federatedId
C18_FamilyItems(itemSeq, id) ==
  {n \in 1..Len(itemSeq) :
     itemSeq[n].federatedId = id /\ itemSeq[n].roles = <<"family">>}

C18_FamilyExactlyOnce ==
  pure.stage = "ensured"
    => \A i \in C18_OptionRows(pure.rows) :
         Cardinality(C18_FamilyItems(pure.ensured, pure.rows[i].familyFederatedId)) = 1

(***************************************************************************)
(* C18 amended: every familyFederatedId referenced by an option row is the *)
(* federatedId of at least one family-role item: of exactly one            *)
(* (synthesized) when no family row declares it, and otherwise of as many  *)
(* as there are family rows declaring it (family rows are not              *)
(* deduplicated).                                                          *)
(***************************************************************************)
C18_Declarations(rows, id) ==
  {i \in C18_FamilyRows(rows) : rows[i].familyFederatedId = id}

C18_FamilyOncePerDeclaration ==
  pure.stage = "ensured"
    => \A i \in C18_OptionRows(pure.rows) :
         LET id == pure.rows[i].familyFederatedId
             declared == Cardinality(C18_Declarations(pure.rows, id))
         IN Cardinality(C18_FamilyItems(pure.ensured, id)) =
              IF declared = 0 THEN 1 ELSE declared

\* a family declared by two family rows and referenced by an option row
C18_Witness ==
  /\ pure.stage = "ensured"
  /\ \E i \in C18_OptionRows(pure.rows) :
       /\ Cardinality(C18_Declarations(pure.rows, pure.rows[i].familyFederatedId)) = 2
       /\ Cardinality(C18_FamilyItems(pure.ensured, pure.rows[i].familyFederatedId)) = 2

(***************************************************************************)
(* C19: the items ensureFamilyItemsExist adds are one record per family id *)
(* referenced by an option row and declared by no family row, without      *)
(* duplicates, in the order in which those ids first appear in the rows,   *)
(* each {name: "Family " + id, description: "Auto-generated family for " + *)
(* id, federatedId: id, roles: [family]}; nothing is added when every      *)
(* referenced family is declared.                                          *)
(***************************************************************************)
C19_Missing(rows) ==
  {rows[i].familyFederatedId : i \in C18_OptionRows(rows)}
  \ {rows[i].familyFederatedId : i \in C18_FamilyRows(rows)}

\* position of the first row that names the family
C19_FirstSeen(rows, id) ==
  CHOOSE i \in 1..Len(rows) :
    /\ rows[i].familyFederatedId = id
    /\ \A j \in 1..(i - 1) : rows[j].familyFederatedId # id

C19_Added == SubSeq(pure.ensured, Len(pure.items) + 1, Len(pure.ensured))

C19_SynthesizedFamilies ==
  pure.stage = "ensured"
    => /\ Len(pure.ensured) = Len(pure.items) + Cardinality(C19_Missing(pure.rows))
       /\ {C19_Added[n].federatedId : n \in 1..Len(C19_Added)} = C19_Missing(pure.rows)
       /\ \A n \in 1..Len(C19_Added) :
            C19_Added[n] =
              [name |-> "Family " \o C19_Added[n].federatedId,
               description |-> "Auto-generated family for " \o C19_Added[n].federatedId,
               federatedId |-> C19_Added[n].federatedId,
               roles |-> <<"family">>]
       /\ \A m, n \in 1..Len(C19_Added) :
            m < n => C19_FirstSeen(pure.rows, C19_Added[m].federatedId)
                       < C19_FirstSeen(pure.rows, C19_Added[n].federatedId)

\* two missing families, the first of them referenced twice
C19_Witness ==
  /\ pure.stage = "ensured"
  /\ Len(pure.rows) = 3
  /\ Len(C19_Added) = 2
  /\ pure.rows[1].familyFederatedId = pure.rows[3].familyFederatedId
  /\ C19_Added[1].federatedId = pure.rows[1].familyFederatedId

(***************************************************************************)
(* C20: the result of ensureFamilyItemsExist starts with the given items,  *)
(* unmodified and in their order; everything it adds comes after them (at  *)
(* the first call and at a call on its own output alike).                  *)
(***************************************************************************)
C20_StartsWith(whole, front) ==
  /\ Len(whole) >= Len(front)
  /\ \A n \in 1..Len(front) : whole[n] = front[n]

C20_ItemsKeptInFront ==
  /\ pure.stage \in {"ensured", "ensuredTwice"}
       => /\ C20_StartsWith(pure.ensured, pure.items)
          /\ pure.items = [n \in 1..Len(pure.rows) |-> transformCsvRowToItem(pure.rows[n])]
          /\ \A n \in (Len(pure.items) + 1)..Len(pure.ensured) :
               pure.ensured[n].name = "Family " \o pure.ensured[n].federatedId
  /\ pure.stage = "ensuredTwice" => C20_StartsWith(pure.again, pure.ensured)

C20_Witness ==
  /\ pure.stage = "ensured"
  /\ Len(pure.items) = 3
  /\ Len(pure.ensured) = 5

(***************************************************************************)
(* C21: for every valid row r, transformCsvRowToItem(r) has name = r.title *)
(* and description = r.details and exactly one role: family with           *)
(* federatedId = r.familyFederatedId when r.optionFederatedId is absent,   *)
(* option with federatedId = r.optionFederatedId otherwise.                *)
(***************************************************************************)
C21_RowToItem ==
  pure.stage = "transformed"
    => \A i \in 1..Len(pure.rows) :
         LET r == pure.rows[i]
             item == pure.items[i]
         IN /\ item.name = r.title
            /\ item.description = r.details
            /\ Len(item.roles) = 1
            /\ IF "optionFederatedId" \notin DOMAIN r
                 THEN item.roles[1] = "family" /\ item.federatedId = r.familyFederatedId
                 ELSE item.roles[1] = "option" /\ item.federatedId = r.optionFederatedId

\* a family row and an option row have both been transformed
C21_Witness ==
  /\ pure.stage = "transformed"
  /\ \E i, j \in 1..Len(pure.rows) :
       /\ "optionFederatedId" \notin DOMAIN pure.rows[i]
       /\ pure.items[i].roles = <<"family">>
       /\ "optionFederatedId" \in DOMAIN pure.rows[j]
       /\ pure.items[j].federatedId = pure.rows[j].optionFederatedId
       /\ pure.items[j].federatedId # pure.rows[j].familyFederatedId

(***************************************************************************)
(* C23: transformCsvRowsToItems preserves length and order: the result has *)
(* as many items as there are rows and its i-th item is                    *)
(* transformCsvRowToItem of the i-th row.                                  *)
(***************************************************************************)
C23_LengthAndOrder ==
  pure.stage = "transformed"
    => /\ Len(pure.items) = Len(pure.rows)
       /\ \A i \in 1..Len(pure.rows) :
            pure.items[i] = transformCsvRowToItem(pure.rows[i])

\* three rows that transform to three different items
C23_Witness ==
  /\ pure.stage = "transformed"
  /\ Len(pure.rows) = MaxSmallRows
  /\ \A i, j \in 1..Len(pure.items) : i # j => pure.items[i] # pure.items[j]

(***************************************************************************)
(* C22: for every row the CsvRow type accepts (optionFederatedId absent,   *)
(* empty or non-empty), transformCsvRowToItem sets federatedId to          *)
(* optionFederatedId if it is present and non-empty and to                 *)
(* familyFederatedId otherwise, and the role is option exactly when the    *)
(* federatedId was taken from optionFederatedId. The code chooses the id   *)
(* with ?? and the role by truthiness, so an empty optionFederatedId       *)
(* yields the federatedId "".                                              *)
(***************************************************************************)
C22_OptionGiven(r) ==
  /\ "optionFederatedId" \in DOMAIN r
  /\ r.optionFederatedId # ""

C22_NonEmptyOptionElseFamily ==
  pure.stage = "transformed"
    => \A i \in 1..Len(pure.rows) :
         LET r == pure.rows[i]
             item == pure.items[i]
         IN /\ item.federatedId =
                 IF C22_OptionGiven(r) THEN r.optionFederatedId ELSE r.familyFederatedId
            /\ item.roles = <<"option">> <=> C22_OptionGiven(r)

(***************************************************************************)
(* C27: when processBatch returns normally, its BatchProcessingResult      *)
(* equals the record the status store holds after the final update: same   *)
(* id, status, totalItems, processedItems, failedItems and error list.     *)
(***************************************************************************)
C27_ResultMirrorsStore ==
  result # <<>>
    => /\ BatchId \in DOMAIN store
       /\ result.batchId = store[BatchId].id
       /\ result.status = store[BatchId].status
       /\ result.totalItems = store[BatchId].totalItems
       /\ result.processedItems = store[BatchId].processedItems
       /\ result.failedItems = store[BatchId].failedItems
       /\ result.errors = store[BatchId].errors

\* a partial batch was returned: some items processed, some failed with errors
C27_Witness ==
  /\ result # <<>>
  /\ result.status = "partial"
  /\ result.processedItems > 0
  /\ result.failedItems > 0
  /\ result.totalItems > result.processedItems
  /\ Len(result.errors) = result.failedItems
  /\ store[BatchId].status = "partial"

(***************************************************************************)
(* C26: creating a batch (CreateBatchCommand.execute) returns the batch id *)
(* with the initial status pending and processedItems = 0, failedItems =   *)
(* 0, before any chunk has been reconciled against the item service. The   *)
(* code awaits the whole processBatch and returns the final result.        *)
(***************************************************************************)
C26_RespondsPendingBeforeReconciling ==
  CreateBatchCommandResult # <<>>
    => /\ CreateBatchCommandResult.batchId = BatchId
       /\ CreateBatchCommandResult.status = "pending"
       /\ CreateBatchCommandResult.processedItems = 0
       /\ CreateBatchCommandResult.failedItems = 0
       /\ CallsOf(CatalogOps) = {}

(***************************************************************************)
(* C25: if processBatch is interrupted after some but not all chunks have  *)
(* been reconciled (before the final persist), the persisted batch record  *)
(* reflects the completed chunks: their items are counted in               *)
(* processedItems/failedItems, no item of a pending chunk is counted, and  *)
(* the persisted status is not completed. The code persists the counters   *)
(* only in the final updateBatch, so the interrupted record counts nothing.*)
(***************************************************************************)
C25_InterruptedMidway ==
  /\ pc = "interrupted"
  /\ SettledChunks # {}
  /\ k <= Len(batches)

C25_InterruptedRecordCountsChunks ==
  C25_InterruptedMidway
    => /\ BatchId \in DOMAIN store
       /\ store[BatchId].processedItems =
            SumLen(batches, {j \in SettledChunks : ~ChunkHasFailed(j)})
       /\ store[BatchId].failedItems =
            SumLen(batches, {j \in SettledChunks : ChunkHasFailed(j)})
       /\ store[BatchId].status # "completed"

(***************************************************************************)
(* C24: the in-flight aggregate (processed counter, failed counter, error  *)
(* list) is never shared between invocations: when processBatch            *)
(* invocations on one service instance interleave at their awaits, the     *)
(* final counts and error list of each are what that invocation produces   *)
(* alone from the outcomes of its own chunks.                              *)
(***************************************************************************)
C24_OkChunks(f) == {j \in 1..Len(f.settled) : f.settled[j] = "ok"}

C24_FailedChunks(f) == {j \in 1..Len(f.settled) : f.settled[j] # "ok"}

\* the error list of a loop that ran alone through chunks 1..j with the given outcomes
RECURSIVE C24_ErrorsAlone(_, _, _)
C24_ErrorsAlone(bs, settled, j) ==
  IF j = 0 THEN <<>>
  ELSE C24_ErrorsAlone(bs, settled, j - 1)
         \o (IF settled[j] = "ok" THEN <<>> ELSE ChunkErrors(bs[j], settled[j]))

C24_ResultAlone(i) ==
  LET f == frames[i]
      processed == SumLen(f.batches, C24_OkChunks(f))
      failed == SumLen(f.batches, C24_FailedChunks(f))
  IN [batchId |-> FrameBatchId(i),
      status |-> IF failed = 0 THEN "completed"
                 ELSE IF processed = 0 THEN "failed" ELSE "partial",
      totalItems |-> SumLen(f.batches, 1..Len(f.batches)),
      processedItems |-> processed,
      failedItems |-> failed,
      errors |-> C24_ErrorsAlone(f.batches, f.settled, Len(f.settled))]

C24_AggregateNotShared ==
  \A i \in DOMAIN frames :
    /\ frames[i].pc \in {"awaitSingleBatch", "awaitFinalUpdate", "done"}
         => /\ aggregates[i].processedItems = C24_ResultAlone(i).processedItems
            /\ aggregates[i].failedItems = C24_ResultAlone(i).failedItems
            /\ aggregates[i].errors = C24_ResultAlone(i).errors
    /\ frames[i].pc = "done"
         => /\ Len(frames[i].settled) = Len(frames[i].batches)
            /\ frames[i].result = C24_ResultAlone(i)

\* two invocations of two chunks each have returned after interleaving, one
\* with a failed chunk and the other without
C24_Witness ==
  /\ frames # <<>>
  /\ frames[1].pc = "done" /\ frames[2].pc = "done"
  /\ frames[1].overlapped /\ frames[2].overlapped
  /\ Len(frames[1].batches) = 2 /\ Len(frames[2].batches) = 2
  /\ frames[1].result.status = "partial"
  /\ frames[2].result.status = "completed"
  /\ frames[2].result.processedItems = MAX_BATCH_SIZE + 1

(***************************************************************************)
(* C28: parseCsvContent is all-or-nothing. It rejects when there is no     *)
(* data row, when a required column is missing, or when any row has an     *)
(* empty familyFederatedId, title or details (the message names row        *)
(* index + 2); otherwise it returns one row per record and every row       *)
(* satisfies the Row invariant: familyFederatedId, title and details       *)
(* non-empty and trimmed, optionFederatedId absent or a non-empty trimmed  *)
(* string (an empty option value becomes absent).                          *)
(***************************************************************************)
C28_Required == {"familyFederatedId", "title", "details"}

C28_Blank(str) == \A n \in 1..Len(str) : str[n] \in Whitespace

C28_Trimmed(str) ==
  /\ str # <<>>
  /\ str[1] \notin Whitespace
  /\ str[Len(str)] \notin Whitespace

\* the records (1-based) with a blank required field
C28_InvalidRecords(records) ==
  {n \in 1..Len(records) : \E c \in C28_Required : C28_Blank(records[n][c])}

C28_RowInvariant(row) ==
  /\ C28_Required \subseteq DOMAIN row
  /\ DOMAIN row \subseteq C28_Required \cup {"optionFederatedId"}
  /\ \A c \in DOMAIN row : C28_Trimmed(row[c])

C28_AllOrNothing ==
  pure.stage = "parsed"
    => LET library == pure.library
           outcome == pure.outcome
       IN IF library.threw
            THEN outcome.rejected
          ELSE IF library.records = <<>>
            THEN outcome.rejected
          ELSE IF ~(C28_Required \subseteq DOMAIN library.records[1])
            THEN outcome.rejected
          ELSE IF C28_InvalidRecords(library.records) # {}
            THEN /\ outcome.rejected
                 /\ \E n \in C28_InvalidRecords(library.records) :
                      \E c \in {c \in C28_Required : C28_Blank(library.records[n][c])} :
                        outcome.message =
                          "CSV parsing failed: Row " \o ToString((n - 1) + 2)
                            \o ": " \o c \o " is required"
          ELSE /\ ~outcome.rejected
               /\ Len(outcome.rows) = Len(library.records)
               /\ \A n \in 1..Len(outcome.rows) :
                    LET row == outcome.rows[n]
                        rec == library.records[n]
                    IN /\ C28_RowInvariant(row)
                       /\ "optionFederatedId" \in DOMAIN row
                            <=> /\ "optionFederatedId" \in DOMAIN rec
                                /\ ~C28_Blank(rec.optionFederatedId)

\* two padded records were accepted: one with a blank option value, which
\* became absent, and one with an option value, which was trimmed
C28_Witness ==
  /\ pure.stage = "parsed"
  /\ ~pure.library.threw
  /\ ~pure.outcome.rejected
  /\ Len(pure.outcome.rows) = 2
  /\ "optionFederatedId" \in DOMAIN pure.library.records[1]
  /\ pure.library.records[1].optionFederatedId = <<" ">>
  /\ "optionFederatedId" \notin DOMAIN pure.outcome.rows[1]
  /\ pure.library.records[2].optionFederatedId = <<"o", " ">>
  /\ pure.outcome.rows[2].optionFederatedId = <<"o">>
  /\ pure.outcome.rows[2].familyFederatedId = <<"f">>

\* the second record has a blank title: rejected, the message names row 3
C28_RejectedWitness ==
  /\ pure.stage = "parsed"
  /\ ~pure.library.threw
  /\ Len(pure.library.records) = 2
  /\ C28_Required \subseteq DOMAIN pure.library.records[1]
  /\ C28_InvalidRecords(pure.library.records) = {2}
  /\ pure.outcome.rejected
  /\ pure.outcome.message = "CSV parsing failed: Row 3: title is required"

(***************************************************************************)
(* C29: invalid rows are logged and excluded from batch submission: when a *)
(* CSV has valid rows and a row with an empty required field, the valid    *)
(* rows are still returned (to be transformed and submitted) and only the  *)
(* invalid row is left out. The parser rejects the whole file instead.     *)
(***************************************************************************)
C29_ValidRecords(records) == {n \in 1..Len(records) : n \notin C28_InvalidRecords(records)}

C29_InvalidRowsExcluded ==
  /\ pure.stage = "parsed"
  /\ ~pure.library.threw
  /\ pure.library.records # <<>>
  /\ C28_Required \subseteq DOMAIN pure.library.records[1]
  /\ C28_InvalidRecords(pure.library.records) # {}
  /\ C29_ValidRecords(pure.library.records) # {}
  => /\ ~pure.outcome.rejected
     /\ Len(pure.outcome.rows) = Cardinality(C29_ValidRecords(pure.library.records))

(***************************************************************************)
(* C30: the router dispatches by the first matching route only: POST       *)
(* /batches goes to handleBatches with empty params, GET /batches/{id}     *)
(* (one non-empty path segment) goes to handleBatches with params          *)
(* {batchId: id}, GET /health answers 200 with status healthy, and every   *)
(* other method/path pair answers 404 with error "Not Found" without       *)
(* calling any handler.                                                    *)
(***************************************************************************)
C30_IsBatchPath(p) ==
  /\ Len(p) = 4
  /\ p[1] = "/" /\ p[2] = "batches" /\ p[3] = "/"
  /\ p[4] # "/"

C30_Dispatch ==
  pure.stage = "routed"
    => LET m == pure.event.method
           p == pure.event.rawPath
           out == pure.outcome
       IN IF m = "POST" /\ p = <<"/", "batches">>
            THEN out.called = <<[handler |-> "handleBatches", params |-> <<>>]>>
          ELSE IF m = "GET" /\ C30_IsBatchPath(p)
            THEN out.called =
                   <<[handler |-> "handleBatches", params |-> [batchId |-> p[4]]]>>
          ELSE IF m = "GET" /\ p = <<"/", "health">>
            THEN /\ out.called = <<>>
                 /\ out.statusCode = 200
                 /\ out.body.status = "healthy"
          ELSE /\ out.called = <<>>
               /\ out.statusCode = 404
               /\ out.body.error = "Not Found"

\* GET /batches/b1 was dispatched to handleBatches with {batchId: "b1"}
C30_Witness ==
  /\ pure.stage = "routed"
  /\ pure.event.method = "GET"
  /\ pure.event.rawPath = <<"/", "batches", "/", "b1">>
  /\ Len(pure.outcome.called) = 1
  /\ pure.outcome.called[1].params.batchId = "b1"

\* POST /batches/b1 matches the pattern of a GET route only: 404, no handler called
C30_NotFoundWitness ==
  /\ pure.stage = "routed"
  /\ pure.event.method = "POST"
  /\ pure.event.rawPath = <<"/", "batches", "/", "b1">>
  /\ pure.outcome.called = <<>>
  /\ pure.outcome.statusCode = 404
  /\ pure.outcome.body.message = "Route POST /batches/b1 not found"

(***************************************************************************)
(* C34: a chunk counted as failed left no trace in the catalog: none of    *)
(* its items was created or updated by that chunk's reconciliation. The    *)
(* code awaits create and update together (Promise.all), so one of them    *)
(* can succeed while the other fails, and a call still pending when the    *)
(* chunk is counted can succeed afterwards.                                *)
(***************************************************************************)
C34_WriteOps == {"createItemsBatch", "updateItemsBatch"}

C34_FailedChunkLeftNoTrace ==
  \A j \in SettledChunks :
    ChunkHasFailed(j)
      => \A i \in ChunkCalls(j) : calls[i].op \in C34_WriteOps => outcomes[i] # "ok"

(***************************************************************************)
(* C35: chunks are reconciled strictly one after another: the catalog      *)
(* calls in flight belong to at most one chunk, i.e. the lookup of chunk   *)
(* k+1 is issued only after the create and the update call of chunk k have *)
(* settled. Promise.all rejects at the first rejection, so the loop goes   *)
(* on to the next chunk while the other call is still pending.             *)
(***************************************************************************)
C35_InFlight == {i \in CallsOf(CatalogOps) : outcomes[i] = "pending"}

C35_OneChunkInFlight ==
  \A i, j \in C35_InFlight : calls[i].chunk = calls[j].chunk

(***************************************************************************)
(* C37: every create call and every update call issued by processBatch     *)
(* carries at least 1 and at most MAX_BATCH_SIZE items, no item is dropped *)
(* to fit the limit, and the size-precondition error of processSingleBatch *)
(* is never raised for a chunk formed by processItemsInBatches.            *)
(***************************************************************************)
C37_WriteCallsOf(j) == {i \in ChunkCalls(j) : calls[i].op \in C34_WriteOps}

C37_LookedUp(j) ==
  \E i \in ChunkCalls(j) :
    calls[i].op = "lookupItemsByFederatedIds" /\ outcomes[i] = "ok"

RECURSIVE C37_ItemsSent(_)
C37_ItemsSent(is) ==
  IF is = {} THEN 0
  ELSE LET i == CHOOSE x \in is : TRUE
       IN Len(calls[i].items) + C37_ItemsSent(is \ {i})

C37_WriteCallsWithinLimit ==
  /\ \A i \in CallsOf(C34_WriteOps) :
       /\ Len(calls[i].items) >= 1
       /\ Len(calls[i].items) <= MAX_BATCH_SIZE
  \* the chunks hold every item, each chunk within the limit
  /\ batches # <<>> =>
       /\ SumLen(batches, 1..Len(batches)) = Len(items)
       /\ \A j \in 1..Len(batches) : Len(batches[j]) \in 1..MAX_BATCH_SIZE
  \* a chunk whose lookup resolved is sent whole
  /\ \A j \in 1..Len(batches) :
       C37_LookedUp(j)
         => /\ C37_ItemsSent(C37_WriteCallsOf(j)) = Len(batches[j])
            /\ \A n \in 1..Len(batches[j]) :
                 \E i \in C37_WriteCallsOf(j) :
                   \E m \in 1..Len(calls[i].items) :
                     /\ calls[i].items[m].federatedId = batches[j][n].federatedId
                     /\ calls[i].items[m].name = batches[j][n].name
  \* the size error is never among the recorded errors
  /\ \A n \in 1..Len(errors) :
       errors[n].error \in {LookupError, CreateError, UpdateItemsError}

\* a full chunk was sent in one create call, and a later chunk was split
\* between a create and an update call
C37_Witness ==
  /\ pc = "done"
  /\ Len(batches) = 2
  /\ \E i \in C37_WriteCallsOf(1) :
       calls[i].op = "createItemsBatch" /\ Len(calls[i].items) = MAX_BATCH_SIZE
  /\ Cardinality(C37_WriteCallsOf(2)) = 2

(***************************************************************************)
(* C32: referential integrity in the catalog: when processBatch returns,   *)
(* every option item this invocation created or updated has its family     *)
(* (the item whose federatedId is the option row's familyFederatedId)      *)
(* present in the catalog, for every pattern of chunk failures. The        *)
(* families are reconciled like any other item, in their own call or       *)
(* chunk, which can fail while the option's succeeds.                      *)
(***************************************************************************)
\* the federatedIds a successful create or update call has written
C32_Written ==
  {calls[i].items[n].federatedId :
     <<i, n>> \in {<<j, m>> \in CallsOf(C34_WriteOps) \X (1..MAX_BATCH_SIZE) :
                     outcomes[j] = "ok" /\ m <= Len(calls[j].items)}}

C32_OptionsHaveFamily ==
  pc = "done"
    => \A n \in 1..Len(csvRows) :
         (IsOptionRow(csvRows[n]) /\ csvRows[n].optionFederatedId \in C32_Written)
           => csvRows[n].familyFederatedId \in DOMAIN catalog

(***************************************************************************)
(* C31: reading a batch never writes. In every step of getBatchStatus and  *)
(* GetBatchQuery.execute the status store and the catalog stay as they     *)
(* are and the only call made is the store's getBatchById; when that call  *)
(* resolves, getBatchStatus returns exactly its value (the batch, or null  *)
(* when absent) and execute returns the batch when one is stored and       *)
(* raises NotFoundError when the store said null.                          *)
(***************************************************************************)
C31_ReadIsRight(n) ==
  LET batchId == calls[n].batchId
      outcome == pure.results[n]
      stored  == batchId \in DOMAIN store
  IN outcomes[n] = "ok"
       => /\ stored
            => outcome.kind = "returned" /\ outcome.value = store[batchId]
          /\ ~stored
            => IF outcome.kind = "returned"
                 THEN outcome.value = Null
                 ELSE /\ outcome.error.name = "NotFoundError"
                      /\ outcome.error.code = "NOT_FOUND"

\* which reader made read n is not kept once it has settled: null is what
\* getBatchStatus returns and NotFoundError what execute raises
C31_ReadingStep ==
  /\ store' = store
  /\ catalog' = catalog
  /\ \A n \in 1..Len(calls') : calls'[n].op = "getBatchById"
  /\ \A n \in 1..Len(pure'.results) : C31_ReadIsRight(n)'
  /\ (pure.reader = "execute" /\ pure'.reader = "none" /\ outcomes'[Len(calls')] = "ok")
       => LET outcome == pure'.results[Len(pure'.results)]
          IN IF calls[LastCall].batchId \in DOMAIN store
               THEN outcome = [kind |-> "returned", value |-> store[calls[LastCall].batchId]]
               ELSE outcome.kind = "raised" /\ outcome.error.name = "NotFoundError"
  /\ (pure.reader = "getBatchStatus" /\ pure'.reader = "none" /\ outcomes'[Len(calls')] = "ok")
       => pure'.results[Len(pure'.results)]
            = [kind |-> "returned", value |-> getBatchById(store, calls[LastCall].batchId)]

C31_ReadingNeverWrites == [][C31_ReadingStep]_vars

\* both readers have answered, one for a stored batch and one for an absent
\* id, over a store that holds a record
C31_Witness ==
  /\ pure.stage = "reading"
  /\ store # <<>>
  /\ Len(pure.results) = 2
  /\ \E n, m \in 1..2 :
       /\ pure.results[n].kind = "returned" /\ pure.results[n].value \in {store[b] : b \in DOMAIN store}
       /\ pure.results[m].kind = "raised" /\ pure.results[m].error.name = "NotFoundError"

(***************************************************************************)
(* C39: no published chunk is lost. When publishBatches has resolved,      *)
(* every request was sent in exactly one SendMessageBatch call of at most  *)
(* 10 entries, in request order, with pairwise distinct entry Ids inside   *)
(* each call, and two requests of the same batch never carry the same      *)
(* MessageDeduplicationId, so the FIFO queue delivers every one of them.   *)
(* The code sets MessageDeduplicationId to the batchId.                    *)
(***************************************************************************)
RECURSIVE C39_Flatten(_)
C39_Flatten(seqs) == IF seqs = <<>> THEN <<>> ELSE Head(seqs) \o C39_Flatten(Tail(seqs))

C39_Sent == C39_Flatten(pure.commands)

C39_NoChunkLost ==
  pure.stage = "published"
    => /\ Len(C39_Sent) = Len(pure.requests)
       /\ \A n \in 1..Len(pure.requests) :
            C39_Sent[n].MessageBody = createSQSMessageBody(pure.requests[n])
       /\ \A c \in 1..Len(pure.commands) :
            /\ Len(pure.commands[c]) <= SqsBatchLimit
            /\ \A n, m \in 1..Len(pure.commands[c]) :
                 n # m => pure.commands[c][n].Id # pure.commands[c][m].Id
       /\ \A n, m \in 1..Len(C39_Sent) :
            n # m => C39_Sent[n].MessageDeduplicationId # C39_Sent[m].MessageDeduplicationId
       /\ pure.queue.delivered
            = [n \in 1..Len(pure.requests) |-> createSQSMessageBody(pure.requests[n])]

(***************************************************************************)
(* C38, as stated: for events whose record bodies are JSON objects, the    *)
(* invocation does not reject when every body carries a batchId and an     *)
(* items array, and rejects with a DomainError of code                     *)
(* INVALID_SQS_MESSAGE when some body lacks batchId or has items that is   *)
(* not an array. A body carrying the batchId "" is rejected.               *)
(***************************************************************************)
C38_Carries(n) ==
  /\ pure.event[n].body.batchId.type # "undefined"
  /\ IsArray(pure.event[n].body.items)

C38_AsStated ==
  (/\ pure.stage = "invoked"
   /\ \A n \in 1..Len(pure.event) : pure.event[n].body.json = "object")
    => IF \A n \in 1..Len(pure.event) : C38_Carries(n)
         THEN pure.invocation.state # "rejected"
         ELSE /\ pure.invocation.state = "rejected"
              /\ pure.invocation.error.code = "INVALID_SQS_MESSAGE"

(***************************************************************************)
(* C38, amended: the invocation resolves, once the processing of every     *)
(* record is over, exactly for the events in which every record body is a  *)
(* JSON object with a truthy (non-empty) batchId and an items array, for   *)
(* any number of records. Otherwise it rejects as soon as the records are  *)
(* mapped, with the error of the first offending record: a DomainError of  *)
(* code INVALID_SQS_MESSAGE when that body is an object whose batchId is   *)
(* absent or empty or whose items is not an array, a SyntaxError when it   *)
(* is not JSON, a TypeError when it is the JSON null. The parsed message's *)
(* retryCount is the body's when that is a number and 0 otherwise.         *)
(***************************************************************************)
C38_Valid(n) ==
  /\ pure.event[n].body.json = "object"
  /\ Truthy(pure.event[n].body.batchId)
  /\ IsArray(pure.event[n].body.items)

C38_Invalid == {n \in 1..Len(pure.event) : ~C38_Valid(n)}

C38_HandlerOutcome ==
  pure.stage = "invoked"
    => /\ C38_Invalid = {}
         => /\ pure.invocation.state # "rejected"
            /\ (\A n \in 1..Len(pure.settled) : pure.settled[n].state = "fulfilled")
                 => pure.invocation = [state |-> "resolved", error |-> NoError]
            /\ pure.invocation.state = "resolved"
                 => \A n \in 1..Len(pure.settled) : pure.settled[n].state = "fulfilled"
       /\ C38_Invalid # {}
         => LET first == CHOOSE n \in C38_Invalid : \A m \in C38_Invalid : n <= m
                body  == pure.event[first].body
            IN /\ pure.invocation.state = "rejected"
               /\ body.json = "object"
                    => /\ pure.invocation.error.name = "DomainError"
                       /\ pure.invocation.error.code = "INVALID_SQS_MESSAGE"
               /\ body.json = "malformed" => pure.invocation.error.name = "SyntaxError"
               /\ body.json = "null" => pure.invocation.error.name = "TypeError"
       /\ \A n \in 1..Len(pure.event) :
            C38_Valid(n)
              => LET given == pure.event[n].body.retryCount
                 IN /\ given.type = "number" => pure.settled[n].message.retryCount = given.number
                    /\ given.type # "number" => pure.settled[n].message.retryCount = 0

\* an event of two valid records has resolved, one of them with a
\* retryCount that is not a number and was read as 0
C38_Witness ==
  /\ pure.stage = "invoked"
  /\ Len(pure.event) = 2
  /\ pure.invocation.state = "resolved"
  /\ \E n \in 1..2 :
       /\ pure.event[n].body.retryCount.type = "string"
       /\ pure.settled[n].message.retryCount = 0

(***************************************************************************)
(* C33: when two reconciliations of the same chunk, or of two chunks       *)
(* sharing a federatedId, run concurrently against the same catalog, no    *)
(* federatedId is sent to the create call by both of them. Nothing orders  *)
(* the lookup of one after the create of the other.                        *)
(***************************************************************************)
C33_CreatedBy(r) ==
  UNION {Range(FederatedIdsOf(calls[i].items)) :
           i \in {j \in CallsOf({"createItemsBatch"}) : calls[j].chunk = r}}

C33_NoDuplicateCreate == C33_CreatedBy(1) \cap C33_CreatedBy(2) = {}

(***************************************************************************)
(* C36, as stated: during one processBatch invocation no federatedId is    *)
(* sent to the create capability more than once, neither twice inside one  *)
(* create call nor in the create calls of two different chunks, for every  *)
(* valid row sequence, rows sharing a federatedId included.                *)
(***************************************************************************)
C36_CreateCalls == CallsOf({"createItemsBatch"})

C36_IdsOf(i) == Range(FederatedIdsOf(calls[i].items))

C36_CreatedOnce ==
  /\ \A i \in C36_CreateCalls : Cardinality(C36_IdsOf(i)) = Len(calls[i].items)
  /\ \A i, j \in C36_CreateCalls : i # j => C36_IdsOf(i) \cap C36_IdsOf(j) = {}

C36_AsStated == C36_CreatedOnce

(***************************************************************************)
(* C36, amended: when the items of the invocation (the transformed rows    *)
(* and the synthesized families) have pairwise distinct federatedIds, no   *)
(* federatedId is sent to the create capability more than once. Items      *)
(* sharing a federatedId are not deduplicated: a create call carries every *)
(* item of its chunk that has one of the call's federatedIds, as often as  *)
(* the chunk holds it.                                                     *)
(***************************************************************************)
C36_DistinctItems == Cardinality(Range(FederatedIdsOf(items))) = Len(items)

C36_CreateKeepsRepeats ==
  \A i \in C36_CreateCalls :
    LET Sent(item) == item.federatedId \in C36_IdsOf(i)
    IN calls[i].items = SelectSeq(batches[calls[i].chunk], Sent)

C36_CreatedOnceWhenDistinct ==
  /\ C36_DistinctItems => C36_CreatedOnce
  /\ C36_CreateKeepsRepeats

\* an invocation over two chunks of distinct items has ended with a
\* successful create call for each chunk
C36_Witness ==
  /\ pc = "done"
  /\ Len(batches) = 2
  /\ C36_DistinctItems
  /\ \A c \in 1..2 :
       \E i \in C36_CreateCalls : calls[i].chunk = c /\ outcomes[i] = "ok"

====
